---- MODULE Spec2Model ----
(***************************************************************************)
(* State-machine model of the wallpaper batch pipeline                     *)
(* (src/src/image_ops.rs): stage classification (add_image), the upscale   *)
(* and optimize transitions, and the line-by-line face detection loop      *)
(* with its single save of the metadata store.                             *)
(* Further sections model the editor's geometry operations and browsing    *)
(* (src/src/geometry.rs, src/src/app_state.rs) and the retrofit tool       *)
(* (src/src/bin/add-resolution.rs).                                        *)
(***************************************************************************)
EXTENDS Integers, Sequences, FiniteSets, TLC

VARIABLES
    pc,         \* position of the run: "start", "idle", "upscaling", "optimizing",
                \* "wait_detect", "detecting", "done", "panic", "exit1"
    phase,      \* rank of the last stage operation the driver called
    format,     \* WallpaperPipeline.format (Option<String>)
    min_dim,    \* <<min_width, min_height>>
    dims,       \* image dimensions of every source file
    files,      \* paths that exist on the filesystem
    disk,       \* the persisted metadata store (wallpapers.csv)
    csv,        \* WallpaperPipeline.wallpapers_csv (in memory)
    images,     \* WallpaperPipeline.images
    acc,        \* entries already mapped by the running upscale/optimize batch
    added,      \* source images already handed to add_image
    calls,      \* external processes spawned so far, in order
    det,        \* the running detect_faces call: paths, lines read, to_preview
    last,       \* the latest add_image / detect_faces step, for the properties
    wallpapers, \* the editor's Wallpapers: the current image and its crop
    ret,        \* the value the latest editor query returned
    retro       \* the retrofit tool: the config file and the record of its runs

vars == <<pc, phase, format, min_dim, dims, files, disk, csv, images, acc, added,
          calls, det, last, wallpapers, ret, retro>>

\* The editor's state, which no pipeline step touches.
editor == <<wallpapers, ret>>

\* The pipeline's state, which no editor step touches.
pipeline == <<pc, phase, format, min_dim, dims, files, disk, csv, images, acc,
              added, calls, det, last>>

(***************************************************************************)
(* Bounds of the model.                                                    *)
(***************************************************************************)
MaxImages == 2      \* add_image calls per run
MaxFaces == 2       \* faces on one detector output line

(***************************************************************************)
(* Paths.  A path is [dir, stem, ext]; ext = "" is a path without          *)
(* extension.                                                              *)
(***************************************************************************)
WallDir == "walls"
TmpDir == "/tmp"

NoFormat == "<none>"

Path(d, s, e) == [dir |-> d, stem |-> s, ext |-> e]

\* PathBuf::with_extension: replaces the extension; an empty one removes it.
with_extension(p, e) == [p EXCEPT !.ext = e]

\* PathBufExt::with_directory: same file name under another directory.
with_directory(p, d) == [p EXCEPT !.dir = d]

\* filename(): the final component of the path, extension included.
filename(p) == <<p.stem, p.ext>>

\* format.map_or_else(|| p.clone(), |ext| p.with_extension(ext))
with_format(p, fmt) == IF fmt = NoFormat THEN p ELSE with_extension(p, fmt)

\* Source images the driver may hand to add_image.
Sources ==
    { Path("in", "a", "png"), Path(TmpDir, "a", "png"),
      Path("in", "b", "jpg"), Path("in", "c", "gif") }

Formats == {NoFormat, "webp", ""}

(***************************************************************************)
(* Pipeline stages (enum WallpaperInput).                                  *)
(***************************************************************************)
Upscale(p, f) == [tag |-> "Upscale", path |-> p, factor |-> f]
Optimize(p) == [tag |-> "Optimize", path |-> p, factor |-> 0]
Detect(p) == [tag |-> "Detect", path |-> p, factor |-> 0]
Preview(p) == [tag |-> "Preview", path |-> p, factor |-> 0]

(***************************************************************************)
(* Metadata.  Resolutions are the configured ratios; a crop is kept        *)
(* symbolically: the Cropper's default for (ratio, faces, dimensions), or  *)
(* a user-customised one.                                                  *)
(***************************************************************************)
Resolutions == {"16:9", "1:1"}

\* Cropper::new(&faces, width, height).crop(ratio)
DefaultCrop(faces, w, h, r) ==
    [ratio |-> r, kind |-> "default", w |-> w, h |-> h, faces |-> faces]

CustomCrop(r) ==
    [ratio |-> r, kind |-> "custom", w |-> 0, h |-> 0, faces |-> <<>>]

WallInfo(fname, w, h, faces, geoms) ==
    [filename |-> fname, width |-> w, height |-> h, faces |-> faces,
     geometries |-> geoms]

\* WallInfo::is_default_crops
is_default_crops(info, resolutions) ==
    \A r \in resolutions :
        info.geometries[r] = DefaultCrop(info.faces, info.width, info.height, r)

\* WallpapersCsv::insert (upsert by filename)
insert(store, fname, info) ==
    [f \in (DOMAIN store) \cup {fname} |-> IF f = fname THEN info ELSE store[f]]

EmptyStore == [f \in {} |-> 0]


(***************************************************************************)
(* u32 arithmetic of get_scale_factor.  Values are below 2^31; a product   *)
(* is kept as <<high 16 bits, low 16 bits>> of its low 32 bits.            *)
(***************************************************************************)
\* width * scale_factor, wrapping (overflow checks off)
wrapping_mul(a, f) ==
    LET lo == (a % 65536) * f
        hi == (a \div 65536) * f + (lo \div 65536)
    IN  <<hi % 65536, lo % 65536>>

\* width * scale_factor does not fit in u32 (panics when overflow checks are on)
mul_overflows(a, f) ==
    (a \div 65536) * f + (((a % 65536) * f) \div 65536) >= 65536

\* product >= min, on u32 values
u32_ge(x, b) ==
    \/ x[1] > b \div 65536
    \/ x[1] = b \div 65536 /\ x[2] >= b % 65536

\* One pass of the loop `for scale_factor in 1..=4`, from scale_factor = f.
\* 0 stands for a panic (no factor found, or an overflow with checks on).
RECURSIVE scale_from(_, _, _, _, _, _)
scale_from(f, width, height, min_width, min_height, checks) ==
    IF f > 4 THEN 0
    ELSE IF checks /\ mul_overflows(width, f) THEN 0
    ELSE IF ~u32_ge(wrapping_mul(width, f), min_width)
        THEN scale_from(f + 1, width, height, min_width, min_height, checks)
    ELSE IF checks /\ mul_overflows(height, f) THEN 0
    ELSE IF u32_ge(wrapping_mul(height, f), min_height) THEN f
    ELSE scale_from(f + 1, width, height, min_width, min_height, checks)

\* Variant: falls back to the largest factor instead of panicking.
get_scale_factor_clamped(width, height, min_width, min_height, checks) ==
    LET sf == scale_from(1, width, height, min_width, min_height, checks)
    IN  IF sf = 0 THEN 4 ELSE sf

get_scale_factor(width, height, min_width, min_height, checks) ==
    scale_from(1, width, height, min_width, min_height, checks)

(***************************************************************************)
(* add_image: the stage an image is classified into.  The result is the    *)
(* entry pushed on the queue; tag "Panic" stands for a panic of the call.  *)
(***************************************************************************)
Panic == [tag |-> "Panic", path |-> Path("", "", ""), factor |-> 0]

\* self.format...with_directory(&self.wall_dir)
out_path_of(img, fmt) == with_directory(with_format(img, fmt), WallDir)

\* WallpaperInput::Upscale((img, get_scale_factor(..))), or the panic of it
upscale_entry(img, width, height, mins, checks) ==
    LET sf == get_scale_factor(width, height, mins[1], mins[2], checks)
    IN  IF sf = 0 THEN Panic ELSE Upscale(img, sf)

\* Variant: an image without metadata is queued as Detect without looking at
\* the output file.
add_image_detect_unknown(img, width, height, fmt, mins, exists, store, checks) ==
    LET out_path == out_path_of(img, fmt)
        fname == filename(out_path)
    IN  IF fname \notin DOMAIN store THEN Detect(out_path)
        ELSE LET info == store[fname]
             IN  IF out_path \in exists
                    /\ info.width \div width = info.height \div height
                    /\ Len(info.faces) # 1
                    /\ is_default_crops(info, Resolutions)
                 THEN Preview(out_path)
                 ELSE upscale_entry(img, width, height, mins, checks)

add_image(img, width, height, fmt, mins, exists, store, checks) ==
    LET out_path == out_path_of(img, fmt)
        fname == filename(out_path)
    IN  IF out_path \in exists
        THEN IF fname \in DOMAIN store
             THEN LET info == store[fname]
                  IN  IF info.width \div width # info.height \div height
                      THEN upscale_entry(img, width, height, mins, checks)
                      ELSE IF Len(info.faces) # 1
                              /\ is_default_crops(info, Resolutions)
                      THEN Preview(out_path)
                      ELSE upscale_entry(img, width, height, mins, checks)
             ELSE Detect(out_path)
        ELSE upscale_entry(img, width, height, mins, checks)

(***************************************************************************)
(* The upscale transition of one entry: the entry it returns and the       *)
(* upscaler process it spawns (none for a factor of 1).                    *)
(***************************************************************************)
Call(tool, input, output, factor, args) ==
    [tool |-> tool, input |-> input, output |-> output, factor |-> factor,
     args |-> args]

upscale_dest(src, fmt) == with_format(with_directory(src, TmpDir), fmt)

\* Variant: an entry with a factor of 1 is handed back as it is.
upscale_keeps_unit(e, fmt) ==
    IF e.tag = "Upscale"
    THEN IF e.factor = 1 THEN e
         ELSE Optimize(upscale_dest(e.path, fmt))
    ELSE e

upscale(e, fmt) ==
    IF e.tag = "Upscale"
    THEN IF e.factor = 1 THEN Optimize(e.path)
         ELSE Optimize(upscale_dest(e.path, fmt))
    ELSE e

\* Variant: the upscaler is run for a factor of 1 too.
upscale_calls_always(e, fmt) ==
    IF e.tag = "Upscale"
    THEN << Call("realcugan-ncnn-vulkan", e.path, upscale_dest(e.path, fmt),
                 e.factor, <<>>) >>
    ELSE <<>>

upscale_calls(e, fmt) ==
    IF e.tag = "Upscale" /\ e.factor # 1
    THEN << Call("realcugan-ncnn-vulkan", e.path, upscale_dest(e.path, fmt),
                 e.factor, <<>>) >>
    ELSE <<>>

(***************************************************************************)
(* The optimize transition of one Optimize entry.                          *)
(***************************************************************************)
optimize_out(src, fmt) == with_directory(with_format(src, fmt), WallDir)

\* The optimizer chosen by the extension of the output path: "none" when the
\* path has no extension, "panic" for an unsupported one.
optimizer_for(ext) ==
    IF ext = "" THEN "none"
    ELSE IF ext \in {"jpg", "jpeg"} THEN "jpegoptim"
    ELSE IF ext = "png" THEN "oxipng"
    ELSE IF ext = "webp" THEN "cwebp"
    ELSE "panic"

\* The file an optimizer writes: jpegoptim keeps the input's file name under
\* the destination directory, oxipng and cwebp write the output path.
optimizer_output(tool, src, out_img) ==
    IF tool = "jpegoptim" THEN with_directory(src, out_img.dir) ELSE out_img

optimize_calls(e, fmt) ==
    LET out_img == optimize_out(e.path, fmt)
        tool == optimizer_for(out_img.ext)
    IN  IF e.tag = "Optimize" /\ tool \notin {"none", "panic"}
        THEN << Call(tool, e.path, optimizer_output(tool, e.path, out_img), 0, <<>>) >>
        ELSE <<>>

\* The entry optimize returns; "Panic" for an unsupported format, "Exit" for
\* the std::process::exit(1) on an entry that was never upscaled.
Exit == [tag |-> "Exit", path |-> Path("", "", ""), factor |-> 0]

optimize(e, fmt) ==
    IF e.tag = "Upscale" THEN Exit
    ELSE IF e.tag = "Optimize"
    THEN IF optimizer_for(optimize_out(e.path, fmt).ext) = "panic"
         THEN Panic
         ELSE Detect(optimize_out(e.path, fmt))
    ELSE e


(***************************************************************************)
(* Initial states: the environment a run starts in.                        *)
(***************************************************************************)
Stems == {p.stem : p \in Sources}

\* Face lists a detector line can decode to: 0..MaxFaces face boxes.
FaceLists == { [i \in 1..n |-> i] : n \in 0..MaxFaces }

OneFace == [i \in 1..1 |-> i]

DefaultGeoms(faces, w, h) == [r \in Resolutions |-> DefaultCrop(faces, w, h, r)]

CustomGeoms == [r \in Resolutions |-> CustomCrop(r)]

\* What the wallpaper directory and the store hold for an output file when the
\* run starts: nothing, the file without metadata, or the file with metadata
\* that is fully processed / still ambiguous / recorded before an edit.
Kinds == {"none", "file", "full", "ambiguous", "edited"}

InitInfo(kind, fname) ==
    IF kind = "full" THEN WallInfo(fname, 2000, 2000, OneFace, CustomGeoms)
    ELSE IF kind = "reshaped"     \* recorded for a 1500x1000 image
        THEN WallInfo(fname, 1500, 1000, <<>>, DefaultGeoms(<<>>, 1500, 1000))
    ELSE IF kind = "ambiguous"
        THEN WallInfo(fname, 2000, 2000, <<>>, DefaultGeoms(<<>>, 2000, 2000))
    ELSE WallInfo(fname, 1000, 500, OneFace, CustomGeoms)

\* The output file of the first source image with the given stem.
OutOfStem(stem, fmt) ==
    out_path_of(CHOOSE p \in Sources : p.stem = stem, fmt)

InitFiles(kinds, fmt) ==
    Sources \cup { OutOfStem(s, fmt) : s \in {t \in Stems : kinds[t] # "none"} }

InitStore(kinds, fmt) ==
    LET with_info == { s \in Stems : kinds[s] \notin {"none", "file"} }
        name_of(s) == filename(OutOfStem(s, fmt))
    IN  [ f \in { name_of(s) : s \in with_info } |->
            LET s == CHOOSE t \in with_info : name_of(t) = f
            IN  InitInfo(kinds[s], f) ]

\* `child` is the detector process: "none" before it is spawned, "running"
\* once spawned, "eof" when its output was seen to end, "reaped" once waited on.
NoDet == [paths |-> <<>>, idx |-> 0, to_preview |-> <<>>, lines |-> <<>>,
          child |-> "none"]

\* `last` records the latest step: the operation, the source image or queue
\* entry it was applied to, the queue and the number of spawned processes
\* before it, (at the end of detect_faces) the number of lines the detector
\* had emitted, (for add_image) whether the image could be measured, (for a
\* step that runs an external tool) how the tool ended, and whether the step
\* had to wait for a file to appear.
NoLast == [op |-> "none", img |-> Path("", "", ""),
           entry |-> Preview(Path("", "", "")), before |-> <<>>, ncalls |-> 0,
           emitted |-> 0, readable |-> TRUE, outcome |-> "none", waited |-> FALSE]

\* The editor is not running during a pipeline run.
NoGeometry == [w |-> 0, h |-> 0, x |-> 0, y |-> 0]

NoInfo == WallInfo(<<"", "">>, 0, 0, <<>>, <<>>)

\* Wallpapers: the dimensions of the current image, its geometry for the
\* selected ratio, the offsets on the active axis at which the Cropper places
\* its candidates for that ratio, and the number of set_geometry calls so far;
\* for browsing, the struct's fields: the files, the index of the current
\* one, its metadata as loaded (source) and as edited (current), and the
\* selected ratio.
NoWallpapers == [width |-> 0, height |-> 0, geom |-> NoGeometry, starts |-> <<>>,
                 edits |-> 0, files |-> <<>>, index |-> 0, source |-> NoInfo,
                 current |-> NoInfo, ratio |-> <<0, 0>>]

\* A returned value: the query, its delta or ratio argument, the geometry it
\* was applied to, and the Geometry or the list of geometries it returned.
NoRet == [op |-> "none", delta |-> 0, ratio |-> <<0, 0>>, arg |-> NoGeometry,
          geom |-> NoGeometry, list |-> <<>>]

\* The retrofit tool has not run: the config file's resolutions, the number
\* of runs, the argument of the latest run and of the one before, how the
\* latest run and the one before ended, the config and the store the latest
\* run found, the file names it pushed on to_process and the lines it printed.
NoRatio == <<0, 0>>

NoArg == [version |-> FALSE, valid |-> FALSE, ratio |-> NoRatio]

NoRetro == [cfg |-> {}, runs |-> 0, arg |-> NoArg, prev |-> NoArg,
            status |-> "none", prev_status |-> "none", cfg_before |-> {},
            before |-> EmptyStore,
            to_process |-> <<>>, printed |-> <<>>]

Init ==
    /\ pc = "start"
    /\ phase = 0
    /\ format \in Formats
    /\ min_dim \in { <<1000, 900>>, <<2100, 2000>> }
    /\ dims = [s \in Stems |->
                IF s = "a" THEN <<500, 500>>
                ELSE IF s = "b" THEN <<1000, 1000>> ELSE <<1000, 500>>]
    /\ \E kinds \in [Stems -> Kinds] :
        /\ kinds["c"] = "none"
        /\ files = InitFiles(kinds, format)
        /\ disk = InitStore(kinds, format)
    /\ csv = EmptyStore
    /\ images = <<>>
    /\ acc = <<>>
    /\ added = {}
    /\ calls = <<>>
    /\ det = NoDet
    /\ last = NoLast
    /\ wallpapers = NoWallpapers
    /\ ret = NoRet
    /\ retro = NoRetro

(***************************************************************************)
(* WallpaperPipeline::new: loads the store and queues Detect for every     *)
(* image of the wallpaper directory that has no metadata.                  *)
(***************************************************************************)
\* Candidate output files, in directory order.
WallOrder(fmt) ==
    << OutOfStem("a", fmt), OutOfStem("b", fmt), OutOfStem("c", fmt) >>

\* filter_images(&wall_dir): the image files of the directory
filter_images(exists, fmt) ==
    SelectSeq(WallOrder(fmt), LAMBDA p : p \in exists /\ p.ext # "")

RECURSIVE new_images(_, _)
new_images(imgs, store) ==
    IF imgs = <<>> THEN <<>>
    ELSE IF filename(Head(imgs)) \notin DOMAIN store
        THEN <<Detect(Head(imgs))>> \o new_images(Tail(imgs), store)
    ELSE new_images(Tail(imgs), store)

New ==
    /\ pc = "start"
    /\ pc' = "idle"
    /\ csv' = disk
    /\ images' = new_images(filter_images(files, format), disk)
    /\ last' = [NoLast EXCEPT !.op = "new"]
    /\ UNCHANGED <<editor, retro, phase, format, min_dim, dims, files, disk, acc, added, calls,
                   det>>

(***************************************************************************)
(* WallpaperPipeline::add_image                                            *)
(***************************************************************************)
AddImage(img) ==
    /\ pc = "idle"
    /\ phase = 0
    /\ img \notin added
    /\ Cardinality(added) < MaxImages
    /\ added' = added \cup {img}
    /\ \E readable \in BOOLEAN, checks \in BOOLEAN :
        LET e == IF readable
                 THEN add_image(img, dims[img.stem][1], dims[img.stem][2], format,
                                min_dim, files, csv, checks)
                 ELSE Panic
        IN  /\ last' = [NoLast EXCEPT !.op = "add_image", !.img = img,
                                      !.before = images, !.readable = readable]
            /\ IF e.tag = "Panic"
               THEN pc' = "panic" /\ images' = images
               ELSE pc' = pc /\ images' = Append(images, e)
    /\ UNCHANGED <<editor, retro, phase, format, min_dim, dims, files, disk, csv, acc, calls, det>>

(***************************************************************************)
(* External processes.  A spawn fails ("nospawn": the caller panics), or   *)
(* the process is waited on and has written its output with exit status 0  *)
(* ("ok") or has ended with a non-zero status and no output ("failed").    *)
(***************************************************************************)
Outcomes == {"ok", "failed", "nospawn"}

\* What the caller does with an outcome: spawn()'s error is unwrapped, the
\* ExitStatus wait() returns is dropped.
is_fatal(o) == o = "nospawn"

\* Variant: the input is not waited for.
wait_for_image_skipped(path, exists) == TRUE

\* wait_for_image returns once the path exists; until then it sleeps.
wait_for_image(path, exists) == path \in exists

\* Effect of running the processes `cs` (at most one) with outcome `o`.
Spawned(cs, o) ==
    IF cs = <<>> THEN calls' = calls /\ files' = files
    ELSE /\ calls' = calls \o cs
         /\ files' = IF o = "ok" THEN files \cup {cs[1].output} ELSE files

(***************************************************************************)
(* WallpaperPipeline::upscale_images: images.iter().map(upscale).collect() *)
(***************************************************************************)
UpscaleImages ==
    /\ pc = "idle"
    /\ phase < 1
    /\ phase' = 1
    /\ pc' = "upscaling"
    /\ acc' = <<>>
    /\ last' = [NoLast EXCEPT !.op = "upscale_images"]
    /\ UNCHANGED <<editor, retro, format, min_dim, dims, files, disk, csv, images, added, calls,
                   det>>

UpscaleStep ==
    /\ pc = "upscaling"
    /\ Len(acc) < Len(images)
    /\ LET e == images[Len(acc) + 1]
           cs == upscale_calls(e, format)
       IN  \E o \in Outcomes :
            /\ cs = <<>> => o = "ok"
            /\ IF is_fatal(o)
               THEN pc' = "panic" /\ UNCHANGED <<acc, calls, files>>
               ELSE /\ pc' = pc
                    /\ acc' = Append(acc, upscale(e, format))
                    /\ Spawned(cs, o)
            /\ last' = [NoLast EXCEPT !.op = "upscale", !.entry = e,
                                      !.before = acc, !.ncalls = Len(calls),
                                      !.outcome = IF cs = <<>> THEN "none" ELSE o]
    /\ UNCHANGED <<editor, retro, phase, format, min_dim, dims, disk, csv, images, added, det>>

UpscaleDone ==
    /\ pc = "upscaling"
    /\ Len(acc) = Len(images)
    /\ pc' = "idle"
    /\ images' = acc
    /\ acc' = <<>>
    /\ last' = [NoLast EXCEPT !.op = "upscale_done"]
    /\ UNCHANGED <<editor, retro, phase, format, min_dim, dims, files, disk, csv, added, calls,
                   det>>

(***************************************************************************)
(* WallpaperPipeline::optimize_images                                      *)
(***************************************************************************)
OptimizeImages ==
    /\ pc = "idle"
    /\ phase < 2
    /\ phase' = 2
    /\ pc' = "optimizing"
    /\ acc' = <<>>
    /\ last' = [NoLast EXCEPT !.op = "optimize_images"]
    /\ UNCHANGED <<editor, retro, format, min_dim, dims, files, disk, csv, images, added, calls,
                   det>>

\* One entry of the batch.  An Optimize entry is taken only once its input
\* exists (wait_for_image polls until then).
OptimizeStep ==
    /\ pc = "optimizing"
    /\ Len(acc) < Len(images)
    /\ LET e == images[Len(acc) + 1]
           r == optimize(e, format)
           cs == optimize_calls(e, format)
       IN  /\ e.tag = "Optimize" => wait_for_image(e.path, files)
           /\ \E o \in Outcomes :
                /\ cs = <<>> => o = "ok"
                /\ IF r.tag = "Exit"
                   THEN pc' = "exit1" /\ UNCHANGED <<acc, calls, files>>
                   ELSE IF r.tag = "Panic" \/ is_fatal(o)
                   THEN pc' = "panic" /\ UNCHANGED <<acc, calls, files>>
                   ELSE /\ pc' = pc
                        /\ acc' = Append(acc, r)
                        /\ Spawned(cs, o)
                /\ last' = [NoLast EXCEPT !.op = "optimize", !.entry = e,
                                          !.before = acc, !.ncalls = Len(calls),
                                          !.outcome = IF cs = <<>> THEN "none" ELSE o,
                                          !.waited = (last.op = "image_appears")]
    /\ UNCHANGED <<editor, retro, phase, format, min_dim, dims, disk, csv, images, added, det>>

OptimizeDone ==
    /\ pc = "optimizing"
    /\ Len(acc) = Len(images)
    /\ pc' = "idle"
    /\ images' = acc
    /\ acc' = <<>>
    /\ last' = [NoLast EXCEPT !.op = "optimize_done"]
    /\ UNCHANGED <<editor, retro, phase, format, min_dim, dims, files, disk, csv, added, calls,
                   det>>


(***************************************************************************)
(* WallpaperPipeline::detect_faces                                         *)
(***************************************************************************)
\* Variant: only an entry that was never upscaled ends the process.
has_unprocessed_upscale(imgs) ==
    \E i \in 1..Len(imgs) : imgs[i].tag = "Upscale"

\* An entry that was never upscaled or optimized ends the process (exit 1).
has_unprocessed(imgs) ==
    \E i \in 1..Len(imgs) : imgs[i].tag \in {"Upscale", "Optimize"}

\* Variant: the paths of Preview entries are submitted too.
detect_paths_all(imgs) == [i \in 1..Len(imgs) |-> imgs[i].path]

RECURSIVE detect_paths(_)
detect_paths(imgs) ==
    IF imgs = <<>> THEN <<>>
    ELSE IF Head(imgs).tag = "Detect"
        THEN <<Head(imgs).path>> \o detect_paths(Tail(imgs))
    ELSE detect_paths(Tail(imgs))

\* Variant: the previews are collected from the detection alone.
queued_previews_dropped(imgs) == SelectSeq(imgs, LAMBDA e : FALSE)

queued_previews(imgs) == SelectSeq(imgs, LAMBDA e : e.tag = "Preview")

\* The path the next detector line is paired with: paths_iter.next()
paired_path(paths, idx) == paths[idx + 1]

\* image::image_dimensions of a file: the files of one stem share dimensions
image_dimensions(path) == dims[path.stem]

\* Variant: one detector process per image, given the first path only.
detector_call_first(paths) ==
    Call("anime-face-detector", Path("", "", ""), Path("", "", ""), 0,
         IF paths = <<>> THEN <<>> ELSE <<Head(paths)>>)

\* Command::new("anime-face-detector").args(&paths)
detector_call(paths) ==
    Call("anime-face-detector", Path("", "", ""), Path("", "", ""), 0, paths)

\* Variant: crops computed without the faces of the image.
wall_info_without_faces(fname, width, height, faces) ==
    WallInfo(fname, width, height, faces, DefaultGeoms(<<>>, width, height))

\* The WallInfo built for one image: one default crop per configured
\* resolution, from a Cropper over the image's faces and dimensions.
wall_info(fname, width, height, faces) ==
    WallInfo(fname, width, height, faces, DefaultGeoms(faces, width, height))

\* Variant: only images without any face are previewed.
needs_preview_no_faces(faces) == Len(faces) = 0

\* preview both multiple faces and no faces
needs_preview(faces) == Len(faces) # 1

DetectFaces ==
    /\ pc = "idle"
    /\ phase < 3
    /\ phase' = 3
    /\ IF has_unprocessed(images)
       THEN pc' = "exit1" /\ det' = det
       ELSE /\ pc' = "wait_detect"
            /\ det' = [paths |-> detect_paths(images), idx |-> 0,
                       to_preview |-> queued_previews(images), lines |-> <<>>,
                       child |-> "none"]
    /\ last' = [NoLast EXCEPT !.op = "detect_faces", !.before = images]
    /\ UNCHANGED <<editor, retro, format, min_dim, dims, files, disk, csv, images, acc, added,
                   calls>>

\* All queued paths exist: the detector is spawned with them as arguments.
DetectSpawn ==
    /\ pc = "wait_detect"
    /\ \A i \in 1..Len(det.paths) : wait_for_image(det.paths[i], files)
    /\ \E o \in {"ok", "nospawn"} :
        /\ IF is_fatal(o)
           THEN pc' = "panic" /\ calls' = calls /\ det' = det
           ELSE /\ pc' = "detecting"
                /\ calls' = Append(calls, detector_call(det.paths))
                /\ det' = [det EXCEPT !.child = "running"]
        /\ last' = [NoLast EXCEPT !.op = "detect_spawn", !.before = images,
                                  !.ncalls = Len(calls), !.outcome = o,
                                  !.waited = (last.op = "image_appears")]
    /\ UNCHANGED <<editor, retro, phase, format, min_dim, dims, files, disk, csv, images, acc,
                   added>>

\* One turn of the loop: a path is left and the detector has written a line.
\* The line is malformed JSON (panic) or decodes to a face list; the image is
\* then measured (panic when unreadable) and its entry inserted.
DetectLine ==
    /\ pc = "detecting"
    /\ det.idx < Len(det.paths)
    /\ \E malformed \in BOOLEAN, readable \in BOOLEAN, faces \in FaceLists :
        LET path == paired_path(det.paths, det.idx)
            fname == filename(path)
            wh == image_dimensions(path)
        IN  IF malformed \/ ~readable
            THEN pc' = "panic" /\ UNCHANGED <<csv, det>>
            ELSE /\ pc' = pc
                 /\ csv' = insert(csv, fname, wall_info(fname, wh[1], wh[2], faces))
                 /\ det' = [det EXCEPT
                        !.idx = @ + 1,
                        !.lines = Append(@, faces),
                        !.to_preview =
                            IF needs_preview(faces)
                            THEN Append(@, Preview(with_directory(path, WallDir)))
                            ELSE @]
    /\ last' = [NoLast EXCEPT !.op = "detect_line", !.before = images]
    /\ UNCHANGED <<editor, retro, phase, format, min_dim, dims, files, disk, images, acc, added,
                   calls>>

\* Variant: the loop ends and the queue is replaced, the store is not saved.
DetectEnd_unsaved ==
    /\ pc = "detecting"
    /\ pc' = "idle"
    /\ disk' = disk
    /\ images' = det.to_preview
    /\ \E emitted \in {det.idx, det.idx + 1} :
        /\ det.idx < Len(det.paths) => emitted = det.idx
        /\ det' = [det EXCEPT !.child = IF emitted > det.idx THEN "running"
                                                              ELSE "eof"]
        /\ last' = [NoLast EXCEPT !.op = "detect_end", !.before = images,
                                  !.emitted = emitted]
    /\ UNCHANGED <<editor, retro, phase, format, min_dim, dims, files, csv, acc, added, calls>>

\* The loop ends: no path is left (whatever the detector still writes), or the
\* detector's output ended or could not be read.  The store is saved and the
\* queue replaced by the previews.  `emitted` is the number of lines the
\* detector had written.  The child is dropped without a wait: it has closed
\* its output, or (a further line was read) is still running.
DetectEnd ==
    /\ pc = "detecting"
    /\ pc' = "idle"
    /\ disk' = csv
    /\ images' = det.to_preview
    /\ \E emitted \in {det.idx, det.idx + 1} :
        /\ det.idx < Len(det.paths) => emitted = det.idx
        /\ det' = [det EXCEPT !.child = IF emitted > det.idx THEN "running"
                                                              ELSE "eof"]
        /\ last' = [NoLast EXCEPT !.op = "detect_end", !.before = images,
                                  !.emitted = emitted]
    /\ UNCHANGED <<editor, retro, phase, format, min_dim, dims, files, csv, acc, added, calls>>

(***************************************************************************)
(* The filesystem is shared: a file the run is polling for (the sleep of   *)
(* wait_for_image) is put in place by another process.                     *)
(***************************************************************************)
awaited ==
    IF pc = "optimizing" /\ Len(acc) < Len(images)
          /\ images[Len(acc) + 1].tag = "Optimize"
    THEN {images[Len(acc) + 1].path} \ files
    ELSE IF pc = "wait_detect"
    THEN {det.paths[i] : i \in 1..Len(det.paths)} \ files
    ELSE {}

ImageAppears ==
    /\ \E p \in awaited : files' = files \cup {p}
    /\ last' = [NoLast EXCEPT !.op = "image_appears", !.before = images]
    /\ UNCHANGED <<editor, retro, pc, phase, format, min_dim, dims, disk, csv, images, acc,
                   added, calls, det>>

(***************************************************************************)
(* WallpaperPipeline::preview                                              *)
(***************************************************************************)
preview_images(imgs) ==
    LET ps == SelectSeq(imgs, LAMBDA e : e.tag = "Preview")
    IN  [i \in 1..Len(ps) |-> ps[i].path]

DoPreview ==
    /\ pc = "idle"
    /\ phase < 4
    /\ phase' = 4
    /\ pc' = "done"
    /\ calls' = IF preview_images(images) # <<>>
                THEN Append(calls, Call("wallpaper-ui", Path("", "", ""),
                                        Path("", "", ""), 0, preview_images(images)))
                ELSE calls
    /\ last' = [NoLast EXCEPT !.op = "preview", !.before = images]
    /\ UNCHANGED <<editor, retro, format, min_dim, dims, files, disk, csv, images, acc, added,
                   det>>

Next ==
    \/ New
    \/ \E img \in Sources : AddImage(img)
    \/ UpscaleImages
    \/ UpscaleStep
    \/ UpscaleDone
    \/ OptimizeImages
    \/ OptimizeStep
    \/ OptimizeDone
    \/ DetectFaces
    \/ DetectSpawn
    \/ DetectLine
    \/ DetectEnd
    \/ ImageAppears
    \/ DoPreview

Spec == Init /\ [][Next]_vars

(***************************************************************************)
(* One run of the pipeline as its driver makes it: the images are added,   *)
(* then upscale_images, optimize_images, detect_faces and preview are      *)
(* called in that order.  The external tools end (a step that runs one     *)
(* completes), the detector writes one line per path and closes its        *)
(* output, and a file the run polls for is eventually put in place.  The   *)
(* run is a sequential process: it takes its next step unless it waits.    *)
(***************************************************************************)
RunStep ==
    \/ New
    \/ \E img \in Sources : AddImage(img)
    \/ UpscaleImages
    \/ UpscaleStep
    \/ UpscaleDone
    \/ OptimizeImages /\ phase = 1
    \/ OptimizeStep
    \/ OptimizeDone
    \/ DetectFaces /\ phase = 2
    \/ DetectSpawn
    \/ DetectLine
    \/ DetectEnd /\ det.idx = Len(det.paths) /\ det'.child = "eof"
    \/ DoPreview /\ phase = 3

RunNext == RunStep \/ ImageAppears

\* The run starts from the environments of Init with the smaller of the two
\* configured minimum sizes.
RunInit == Init /\ min_dim = <<1000, 900>>

SpecRun ==
    RunInit /\ [][RunNext]_vars /\ WF_vars(RunStep) /\ WF_vars(ImageAppears)


(***************************************************************************)
(* A second set of initial states, for the scale factor: image dimensions  *)
(* and configured minimums over the u32 range, one output file that may    *)
(* already be known.                                                       *)
(***************************************************************************)
ScaleDims ==
    { <<500, 500>>, <<1000, 1000>>, <<2147483647, 1>>, <<1, 2147483647>> }

ScaleMins ==
    { <<1000, 900>>, <<2100, 2000>>, <<2147483647, 3>>, <<3, 2147483647>>,
      <<1, 1>> }

ScaleInit ==
    /\ pc = "start"
    /\ phase = 0
    /\ format = NoFormat
    /\ min_dim \in ScaleMins
    /\ \E d \in ScaleDims : dims = [s \in Stems |-> d]
    /\ \E k \in Kinds \cup {"reshaped"} :
        LET kinds == [s \in Stems |-> IF s = "a" THEN k ELSE "none"]
        IN  /\ files = InitFiles(kinds, format)
            /\ disk = InitStore(kinds, format)
    /\ csv = EmptyStore
    /\ images = <<>>
    /\ acc = <<>>
    /\ added = {}
    /\ calls = <<>>
    /\ det = NoDet
    /\ last = NoLast
    /\ wallpapers = NoWallpapers
    /\ ret = NoRet
    /\ retro = NoRetro

SpecScale == ScaleInit /\ [][Next]_vars


(***************************************************************************)
(* Geometry (src/src/geometry.rs).  Values are u32 below 2^31; Fault is    *)
(* the result of an operation that leaves the u32 range (a panic with      *)
(* overflow checks on, a value wrapped around 2^32 without).               *)
(***************************************************************************)
Geometry(w, h, x, y) == [w |-> w, h |-> h, x |-> x, y |-> y]

Fault == -1

\* a - b on u32
u32_sub(a, b) == IF a = Fault \/ b = Fault \/ a < b THEN Fault ELSE a - b

\* a / 2 on u32
u32_half(a) == IF a = Fault THEN Fault ELSE a \div 2

\* a + b on u32, kept as <<high 16 bits, low 16 bits>>
wrapping_add(a, b) ==
    LET lo == (a % 65536) + (b % 65536)
        hi == (a \div 65536) + (b \div 65536) + (lo \div 65536)
    IN  <<hi % 65536, lo % 65536>>

add_overflows(a, b) ==
    (a \div 65536) + (b \div 65536) + (((a % 65536) + (b % 65536)) \div 65536)
        >= 65536

\* (a + b).min(bound)
u32_add_min(a, b, bound) ==
    IF a = Fault \/ bound = Fault \/ add_overflows(a, b) THEN Fault
    ELSE IF u32_ge(wrapping_add(a, b), bound) THEN bound
    ELSE a + b

\* a.max(b) - b
u32_max_sub(a, b) == IF a = Fault THEN Fault ELSE IF a > b THEN a - b ELSE 0

align_start(g, img_width, img_height) == [g EXCEPT !.x = 0, !.y = 0]

\* Variant: the half of the free space is rounded up.
align_center_rounded_up(g, img_width, img_height) ==
    IF img_height = g.h
    THEN [g EXCEPT !.x = (img_width - g.w + 1) \div 2, !.y = 0]
    ELSE [g EXCEPT !.x = 0, !.y = (img_height - g.h + 1) \div 2]

align_center(g, img_width, img_height) ==
    IF img_height = g.h
    THEN [g EXCEPT !.x = u32_half(u32_sub(img_width, g.w)), !.y = 0]
    ELSE [g EXCEPT !.x = 0, !.y = u32_half(u32_sub(img_height, g.h))]

\* Variant: the subtraction is the other way round.
align_end_reversed(g, img_width, img_height) ==
    IF img_height = g.h
    THEN [g EXCEPT !.x = u32_sub(g.w, img_width), !.y = 0]
    ELSE [g EXCEPT !.x = 0, !.y = u32_sub(g.h, img_height)]

align_end(g, img_width, img_height) ==
    IF img_height = g.h
    THEN [g EXCEPT !.x = u32_sub(img_width, g.w), !.y = 0]
    ELSE [g EXCEPT !.x = 0, !.y = u32_sub(img_height, g.h)]

(***************************************************************************)
(* The Cropper, as far as the editor needs it: the crop of a ratio fitted  *)
(* inside the image, the crop for an image without faces, and the          *)
(* candidates of the current crop.                                         *)
(***************************************************************************)
\* The active axis of a crop: X when the crop is as high as the image.
direction(ws, g) == IF ws.height = g.h THEN "X" ELSE "Y"

\* The largest crop of ratio r[1]:r[2] inside the image.
fit(r, img_width, img_height) ==
    IF img_width * r[2] >= img_height * r[1]
    THEN Geometry((img_height * r[1]) \div r[2], img_height, 0, 0)
    ELSE Geometry(img_width, (img_width * r[2]) \div r[1], 0, 0)

\* Cropper::crop for an image without faces: the centered crop.
crop_no_faces(r, img_width, img_height) ==
    align_center(fit(r, img_width, img_height), img_width, img_height)

\* a value clipped to [0, bound]
clip(start, bound) ==
    IF start < 0 THEN 0 ELSE IF start > bound THEN bound ELSE start

\* clamp: a start on the active axis, clipped to [0, image_dim - crop_dim]
clamp(start, ws, g) ==
    IF direction(ws, g) = "X"
    THEN [g EXCEPT !.x = clip(start, ws.width - g.w)]
    ELSE [g EXCEPT !.y = clip(start, ws.height - g.h)]

(***************************************************************************)
(* Wallpapers (src/src/app_state.rs)                                       *)
(***************************************************************************)
get_geometry(ws) == ws.geom

\* Cropper::crop_candidates for the current ratio: one crop per start, the
\* default crop first.
crop_candidates(ws) ==
    [i \in 1..Len(ws.starts) |->
        clamp(ws.starts[i], ws, align_start(ws.geom, ws.width, ws.height))]

\* Variant: only equal neighbours are merged (Vec::dedup).
RECURSIVE unique_consecutive(_)
unique_consecutive(s) ==
    IF Len(s) <= 1 THEN s
    ELSE LET r == unique_consecutive(SubSeq(s, 1, Len(s) - 1))
         IN  IF r[Len(r)] = s[Len(s)] THEN r ELSE Append(r, s[Len(s)])

\* Itertools::unique: the elements in order, each kept the first time only.
RECURSIVE unique(_)
unique(s) ==
    IF s = <<>> THEN <<>>
    ELSE LET r == unique(SubSeq(s, 1, Len(s) - 1))
         IN  IF \E i \in 1..Len(r) : r[i] = s[Len(s)] THEN r
             ELSE Append(r, s[Len(s)])

candidate_geometries(ws) == unique(crop_candidates(ws))

\* delta.unsigned_abs()
unsigned_abs(delta) == IF delta < 0 THEN -delta ELSE delta

\* Variant: the lower bound is not saturated (offset - |delta|).
move_geometry_by_unsaturated(ws, delta) ==
    LET current_geom == get_geometry(ws)
        negative_delta == delta < 0
        d == unsigned_abs(delta)
    IN  IF direction(ws, current_geom) = "X"
        THEN [current_geom EXCEPT !.x =
                IF negative_delta THEN u32_sub(current_geom.x, d)
                ELSE u32_add_min(current_geom.x, d,
                                 u32_sub(ws.width, current_geom.w))]
        ELSE [current_geom EXCEPT !.y =
                IF negative_delta THEN u32_sub(current_geom.y, d)
                ELSE u32_add_min(current_geom.y, d,
                                 u32_sub(ws.height, current_geom.h))]

move_geometry_by(ws, delta) ==
    LET current_geom == get_geometry(ws)
        negative_delta == delta < 0
        d == unsigned_abs(delta)
    IN  IF direction(ws, current_geom) = "X"
        THEN [current_geom EXCEPT !.x =
                IF negative_delta THEN u32_max_sub(current_geom.x, d)
                ELSE u32_add_min(current_geom.x, d,
                                 u32_sub(ws.width, current_geom.w))]
        ELSE [current_geom EXCEPT !.y =
                IF negative_delta THEN u32_max_sub(current_geom.y, d)
                ELSE u32_add_min(current_geom.y, d,
                                 u32_sub(ws.height, current_geom.h))]

(***************************************************************************)
(* The editor: queries on the current wallpaper, and set_geometry with a   *)
(* geometry a query returned (an align button, a candidate button, a move).*)
(***************************************************************************)
MaxCandidates == 3      \* candidates of one crop
MaxEdits == 2           \* set_geometry calls in one run

EditorImages == { <<1920, 1080>>, <<1080, 1920>>, <<2147483647, 2147483647>> }

CropSizes == {1, 607, 1080, 1920, 2147483647}

Offsets == {0, 10, 2147483647}

Starts == {0, 10}

Deltas == {-2147483647, -50, 0, 50, 2147483647}

Ratios == { <<1, 1>>, <<16, 9>>, <<9, 16>> }

\* The current image, a crop no larger than it at any offset (the stored
\* offsets are read from a file), and the starts of its candidates: any crop
\* with a single candidate, or the square crop with any candidates.
EditorInit ==
    /\ pc = "editor"
    /\ phase = 0
    /\ format = NoFormat
    /\ min_dim = <<0, 0>>
    /\ dims = [s \in Stems |-> <<0, 0>>]
    /\ files = {}
    /\ disk = EmptyStore
    /\ csv = EmptyStore
    /\ images = <<>>
    /\ acc = <<>>
    /\ added = {}
    /\ calls = <<>>
    /\ det = NoDet
    /\ last = NoLast
    /\ \E wh \in EditorImages, w, h \in CropSizes, x, y \in Offsets,
          n \in 1..MaxCandidates :
        \E starts \in [1..n -> Starts] :
            /\ w <= wh[1]
            /\ h <= wh[2]
            /\ \/ n = 1
               \/ w = h /\ (w = wh[1] \/ h = wh[2]) /\ x = 0 /\ y = 0
            /\ wallpapers = [NoWallpapers EXCEPT
                                !.width = wh[1], !.height = wh[2],
                                !.geom = Geometry(w, h, x, y),
                                !.starts = starts]
    /\ ret = NoRet
    /\ retro = NoRetro

faultless(g) == g.w # Fault /\ g.h # Fault /\ g.x # Fault /\ g.y # Fault

AlignStart ==
    /\ ret' = [NoRet EXCEPT !.op = "align_start", !.arg = wallpapers.geom,
                  !.geom = align_start(wallpapers.geom, wallpapers.width,
                                       wallpapers.height)]
    /\ UNCHANGED <<pipeline, retro, wallpapers>>

AlignCenter ==
    /\ ret' = [NoRet EXCEPT !.op = "align_center", !.arg = wallpapers.geom,
                  !.geom = align_center(wallpapers.geom, wallpapers.width,
                                        wallpapers.height)]
    /\ UNCHANGED <<pipeline, retro, wallpapers>>

AlignEnd ==
    /\ ret' = [NoRet EXCEPT !.op = "align_end", !.arg = wallpapers.geom,
                  !.geom = align_end(wallpapers.geom, wallpapers.width,
                                     wallpapers.height)]
    /\ UNCHANGED <<pipeline, retro, wallpapers>>

\* The "Default" button of an image without faces.
CropNoFaces ==
    /\ wallpapers.width <= 65535
    /\ wallpapers.height <= 65535
    /\ \E r \in Ratios :
        ret' = [NoRet EXCEPT !.op = "crop", !.ratio = r, !.arg = wallpapers.geom,
                   !.geom = crop_no_faces(r, wallpapers.width, wallpapers.height)]
    /\ UNCHANGED <<pipeline, retro, wallpapers>>

MoveGeometryBy ==
    /\ \E delta \in Deltas :
        ret' = [NoRet EXCEPT !.op = "move_geometry_by", !.delta = delta,
                   !.arg = wallpapers.geom,
                   !.geom = move_geometry_by(wallpapers, delta)]
    /\ UNCHANGED <<pipeline, retro, wallpapers>>

CandidateGeometries ==
    /\ ret' = [NoRet EXCEPT !.op = "candidate_geometries",
                  !.arg = wallpapers.geom,
                  !.list = candidate_geometries(wallpapers)]
    /\ UNCHANGED <<pipeline, retro, wallpapers>>

\* set_geometry with the geometry an align button or a move returned, or with
\* one of the candidates.
SetGeometry ==
    /\ \E g \in (IF ret.op \in {"align_start", "align_center", "align_end",
                                "move_geometry_by"}
                 THEN {ret.geom}
                 ELSE {ret.list[i] : i \in 1..Len(ret.list)}) :
        /\ faultless(g)
        /\ wallpapers.edits < MaxEdits
        /\ wallpapers' = [wallpapers EXCEPT !.geom = g, !.edits = @ + 1]
    /\ ret' = [NoRet EXCEPT !.op = "set_geometry", !.arg = wallpapers.geom]
    /\ UNCHANGED <<pipeline, retro>>

EditorNext ==
    \/ AlignStart
    \/ AlignCenter
    \/ AlignEnd
    \/ CropNoFaces
    \/ MoveGeometryBy
    \/ CandidateGeometries
    \/ SetGeometry

SpecEditor == EditorInit /\ [][EditorNext]_vars


(***************************************************************************)
(* The retrofit tool (src/src/bin/add-resolution.rs): registers a ratio    *)
(* and gives every image of the store a crop for it.  Ratios are pairs;    *)
(* the image dimensions, faces and offsets of the model are even, so that  *)
(* the halves the tool forms in f64 are whole numbers.                     *)
(***************************************************************************)
MaxRuns == 2        \* runs of the tool

\* One face box.
Face(x, y, w, h) == [x |-> x, y |-> y, w |-> w, h |-> h]

\* The bounding interval of all face boxes on an axis, as <<low, high>>.
faces_interval(faces, dir) ==
    LET lows == { IF dir = "X" THEN faces[i].x ELSE faces[i].y :
                    i \in 1..Len(faces) }
        highs == { IF dir = "X" THEN faces[i].x + faces[i].w
                   ELSE faces[i].y + faces[i].h : i \in 1..Len(faces) }
    IN  << CHOOSE l \in lows : \A m \in lows : l <= m,
           CHOOSE u \in highs : \A m \in highs : u >= m >>

\* Cropper::crop: the centered crop for an image without faces, else the
\* crop centered on the faces' bounding interval, clamped.
crop(info, r) ==
    LET g == fit(r, info.width, info.height)
    IN  IF info.faces = <<>> THEN crop_no_faces(r, info.width, info.height)
        ELSE LET iv == faces_interval(info.faces, direction(info, g))
                 dim == IF direction(info, g) = "X" THEN g.w ELSE g.h
             IN  clamp((iv[1] + iv[2]) \div 2 - dim \div 2, info, g)

\* WallInfo::get_geometry(ratio)
info_get_geometry(info, r) == info.geometries[r]

\* WallpaperConfig::closest_resolution: the configured ratio nearest to the
\* new one, none (NoRatio) when no other ratio is configured.  |a - n| < |b - n|
\* on ratios is decided on cross products.
closest_resolution(resolutions, new_res) ==
    LET others == resolutions \ {new_res}
        closer(a, b, n) ==
            unsigned_abs(a[1] * n[2] - n[1] * a[2]) * b[2]
                < unsigned_abs(b[1] * n[2] - n[1] * b[2]) * a[2]
    IN  IF others = {} THEN NoRatio
        ELSE CHOOSE c \in others : \A o \in others : ~closer(o, c, new_res)

\* WallpapersCsv::save: one row per image, one column per resolution, each
\* holding the offsets "{x}+{y}" of the crop (Geometry's Serialize).
save(store, resolutions) ==
    [f \in DOMAIN store |->
        [store[f] EXCEPT !.geometries =
            [r \in resolutions \cap DOMAIN store[f].geometries |->
                <<store[f].geometries[r].x, store[f].geometries[r].y>>]]]

\* WallpapersCsv::load: the rows, the crop of a column being the ratio's
\* crop of the image at the stored offsets.
load(rows) ==
    [f \in DOMAIN rows |->
        [rows[f] EXCEPT !.geometries =
            [r \in DOMAIN rows[f].geometries |->
                [fit(r, rows[f].width, rows[f].height) EXCEPT
                    !.x = rows[f].geometries[r][1],
                    !.y = rows[f].geometries[r][2]]]]]

\* Variant: the geometry of an image that has one is computed again.
contains_key_never(info, r) == FALSE

\* info.geometries.contains_key(&new_res)
contains_key(info, r) == r \in DOMAIN info.geometries

\* Variant: the new ratio's crop replaces the crops of the image.
add_geometry_alone(info, ratio, geom) ==
    [info EXCEPT !.geometries = [r \in {ratio} |-> geom]]

add_geometry(info, ratio, geom) ==
    [info EXCEPT !.geometries =
        [r \in (DOMAIN info.geometries) \cup {ratio} |->
            IF r = ratio THEN geom ELSE info.geometries[r]]]

center_new_crop(old_crop, new_crop, info) ==
    LET dir == direction(info, old_crop)
        crop_start == IF dir = "X" THEN old_crop.x ELSE old_crop.y
        crop_length == IF dir = "X" THEN old_crop.w ELSE old_crop.h
        closest_mid == (crop_start + crop_length) \div 2
        default_start == closest_mid - new_crop.w \div 2
    IN  clamp(default_start, info, new_crop)

\* Variant: the directions of the two default crops are not compared.
recenters_any_direction(info, new_res, closest) ==
    /\ closest # NoRatio
    /\ info_get_geometry(info, closest) # crop(info, closest)

\* The image gets a re-centered crop: there is a closest resolution, its
\* default crop has the direction of the new default crop, and the image's
\* crop for it is not that default.
recenters(info, new_res, closest) ==
    /\ closest # NoRatio
    /\ direction(info, crop(info, new_res)) = direction(info, crop(info, closest))
    /\ info_get_geometry(info, closest) # crop(info, closest)

\* The WallInfo the loop yields for one image.
updated_info(info, new_res, closest) ==
    IF contains_key(info, new_res) THEN info
    ELSE IF recenters(info, new_res, closest)
    THEN add_geometry(info, new_res,
                      center_new_crop(crop(info, closest), crop(info, new_res),
                                      info))
    ELSE add_geometry(info, new_res, crop(info, new_res))

\* to_process: the file names pushed while the store is iterated in `order`.
RECURSIVE pushed(_, _, _, _)
pushed(order, store, new_res, closest) ==
    IF order = <<>> THEN <<>>
    ELSE LET info == store[Head(order)]
             rest == pushed(Tail(order), store, new_res, closest)
         IN  IF ~contains_key(info, new_res) /\ recenters(info, new_res, closest)
             THEN <<Head(order)>> \o rest
             ELSE rest

\* for updated_info in updated_infos { wallpapers_csv.insert(filename, info) }
RECURSIVE insert_all(_, _)
insert_all(store, infos) ==
    IF infos = <<>> THEN store
    ELSE insert_all(insert(store, Head(infos).filename, Head(infos)), Tail(infos))

\* The order of file names (String's Ord), by the rank of the stem.
fname_rank(f) == CHOOSE i \in 1..3 : <<"a", "b", "c">>[i] = f[1]

\* Variant: the file names are left in the order they were pushed.
sort_skipped(s) == s

\* Vec::sort
RECURSIVE sort(_)
sort(s) ==
    IF s = <<>> THEN <<>>
    ELSE LET least == CHOOSE i \in 1..Len(s) :
                        \A j \in 1..Len(s) : fname_rank(s[i]) <= fname_rank(s[j])
         IN  <<s[least]>> \o
             sort(SubSeq(s, 1, least - 1) \o SubSeq(s, least + 1, Len(s)))

\* The orders in which a map's entries can be iterated.
Orders(S) ==
    { o \in [1..Cardinality(S) -> S] : \A i, j \in 1..Cardinality(S) :
                                            o[i] = o[j] => i = j }

(***************************************************************************)
(* Initial states of the retrofit: a config with some resolutions and a    *)
(* store of up to two images, each with a crop for every configured        *)
(* resolution (the default one, or one the user placed).                   *)
(***************************************************************************)
RetroRatios == { <<1, 1>>, <<2, 1>>, <<1, 2>> }

RetroConfigs == SUBSET { <<1, 1>>, <<2, 1>> }

RetroNames == { <<"a", "png">>, <<"b", "png">> }

\* The command line: the version flag, a ratio, or a string that is not one.
Args ==
    { [NoArg EXCEPT !.valid = TRUE, !.ratio = r] : r \in RetroRatios }
        \cup {NoArg, [NoArg EXCEPT !.version = TRUE]}

\* The crops the store may hold for an image and a ratio: the default one,
\* or one the user placed at the start of the active axis.
RetroCrops(info, r) ==
    {crop(info, r), clamp(0, info, fit(r, info.width, info.height))}

\* The metadata one image may have under a config.
RetroInfos(fname, cfg) ==
    UNION { { [d EXCEPT !.geometries = g] :
                g \in { h \in [cfg -> UNION { RetroCrops(d, r) : r \in cfg }] :
                            \A r \in cfg : h[r] \in RetroCrops(d, r) } } :
            d \in { WallInfo(fname, wh[1], wh[2], fs, <<>>) :
                        wh \in { <<1600, 1200>>, <<1200, 1600>> },
                        fs \in { <<>>, <<Face(600, 500, 200, 200)>> } } }

RetroInit ==
    /\ pc = "retrofit"
    /\ phase = 0
    /\ format = NoFormat
    /\ min_dim = <<0, 0>>
    /\ dims = [s \in Stems |-> <<0, 0>>]
    /\ files = {}
    /\ csv = EmptyStore
    /\ images = <<>>
    /\ acc = <<>>
    /\ added = {}
    /\ calls = <<>>
    /\ det = NoDet
    /\ last = NoLast
    /\ wallpapers = NoWallpapers
    /\ ret = NoRet
    /\ \E cfg \in RetroConfigs, names \in SUBSET RetroNames :
        /\ retro = [NoRetro EXCEPT !.cfg = cfg, !.cfg_before = cfg]
        /\ \E store \in [names -> UNION { RetroInfos(f, cfg) : f \in RetroNames }] :
            /\ \A f \in names : store[f].filename = f
            /\ disk = save(store, cfg)

\* One run of the tool (main).  The version flag ends the run with exit(0);
\* a ratio that does not parse panics; a config that cannot be saved ends
\* the run with exit(1); otherwise the store is
\* loaded, completed, saved, the re-centered file names are printed and the
\* editor is started on them.
AddResolution ==
    /\ pc = "retrofit"
    /\ retro.runs < MaxRuns
    /\ \E arg \in Args, saved \in BOOLEAN, order \in Orders(DOMAIN disk) :
        LET started == [retro EXCEPT !.runs = @ + 1, !.prev = retro.arg,
                                     !.prev_status = retro.status, !.arg = arg,
                                     !.cfg_before = retro.cfg, !.before = disk,
                                     !.to_process = <<>>, !.printed = <<>>]
            new_res == arg.ratio
            closest_res == closest_resolution(retro.cfg, new_res)
            wallpapers_csv == load(disk)
            updated_infos ==
                [i \in 1..Len(order) |->
                    updated_info(wallpapers_csv[order[i]], new_res, closest_res)]
            to_process == pushed(order, wallpapers_csv, new_res, closest_res)
        IN  IF arg.version
            THEN /\ retro' = [started EXCEPT !.status = "version"]
                 /\ UNCHANGED <<disk, calls>>
            ELSE IF ~arg.valid
            THEN /\ retro' = [started EXCEPT !.status = "panic"]
                 /\ UNCHANGED <<disk, calls>>
            ELSE IF new_res \notin retro.cfg /\ ~saved
            THEN /\ retro' = [started EXCEPT !.status = "exit1"]
                 /\ UNCHANGED <<disk, calls>>
            ELSE /\ disk' = save(insert_all(wallpapers_csv, updated_infos),
                                 retro.cfg \cup {new_res})
                 /\ retro' = [started EXCEPT !.status = "ok",
                                             !.cfg = @ \cup {new_res},
                                             !.to_process = to_process,
                                             !.printed = sort(to_process)]
                 /\ calls' = Append(calls, Call("wallpaper-ui", Path("", "", ""),
                                                Path("", "", ""), 0,
                                                sort(to_process)))
    /\ UNCHANGED <<pc, phase, format, min_dim, dims, files, csv, images, acc,
                   added, det, last, wallpapers, ret>>

SpecRetro == RetroInit /\ [][AddResolution]_vars


(***************************************************************************)
(* Browsing (src/src/app_state.rs): the list of files, the current one     *)
(* and its metadata, loaded from the store at every move.  `index` counts  *)
(* from 0.  An operation yields the new Wallpapers and whether it          *)
(* panicked (the fields assigned before the panic are assigned).           *)
(***************************************************************************)
Outcome(panicked, ws) == [panic |-> panicked, ws |-> ws]

\* self.index = index; then source and current are loaded for files[index]
load_at(ws, index, rows) ==
    LET moved == [ws EXCEPT !.index = index]
    IN  IF index < 0 \/ index >= Len(ws.files) THEN Outcome(TRUE, moved)
        ELSE LET fname == filename(ws.files[index + 1])
             IN  IF fname \notin DOMAIN rows THEN Outcome(TRUE, moved)
                 ELSE Outcome(FALSE, [moved EXCEPT !.source = load(rows)[fname],
                                                   !.current = load(rows)[fname]])

prev_wall(ws, rows) ==
    load_at(ws, IF ws.index = 0 THEN Len(ws.files) - 1 ELSE ws.index - 1, rows)

next_wall(ws, rows) ==
    load_at(ws, IF ws.index = Len(ws.files) - 1 THEN 0 ELSE ws.index + 1, rows)

remove(ws, rows) ==
    LET current_index == ws.index
        next == next_wall(ws, rows)
    IN  IF next.panic THEN next
        ELSE IF current_index >= Len(ws.files) THEN Outcome(TRUE, next.ws)
        ELSE Outcome(FALSE,
                     [next.ws EXCEPT
                        !.files = SubSeq(@, 1, current_index)
                                    \o SubSeq(@, current_index + 2, Len(@)),
                        !.index = current_index])

\* files.iter().position(|f| filename(f) == fname), -1 for None
position(fs, fname) ==
    IF \E i \in 1..Len(fs) : filename(fs[i]) = fname
    THEN (CHOOSE i \in 1..Len(fs) :
            /\ filename(fs[i]) = fname
            /\ \A j \in 1..(i - 1) : filename(fs[j]) # fname) - 1
    ELSE -1

set_from_filename(ws, fname, rows) ==
    IF fname \notin DOMAIN rows THEN Outcome(TRUE, ws)
    ELSE LET loaded == [ws EXCEPT !.source = load(rows)[fname],
                                  !.current = load(rows)[fname]]
         IN  IF position(ws.files, fname) < 0 THEN Outcome(TRUE, loaded)
             ELSE Outcome(FALSE, [loaded EXCEPT !.index = position(ws.files, fname)])

\* Wallpapers::set_geometry: the geometry of the current copy, for the
\* selected ratio (WallInfo::set_geometry replaces the ratio's entry)
set_geometry(ws, geom) ==
    [ws EXCEPT !.current.geometries[ws.ratio] = geom]

\* The resolutions of the config, in order.
BrowseResolutions == << <<1, 1>>, <<4, 3>> >>

\* image_ratios: the resolutions whose ratio is not the image's
image_ratios(ws) ==
    SelectSeq(BrowseResolutions,
              LAMBDA r : ws.current.width * r[2] # ws.current.height * r[1])

\* Variant: a crop is marked when it is not the Cropper's default.
dirty_marker_default(ws, res) ==
    IF info_get_geometry(ws.current, res) = crop(ws.current, res) THEN "" ELSE " *"

\* The marker of a resolution button: " *" when the current crop of the
\* resolution is not the source's.
dirty_marker(ws, res) ==
    IF info_get_geometry(ws.current, res) = info_get_geometry(ws.source, res)
    THEN "" ELSE " *"

\* The buttons RatioSelector renders: resolution and marker.
ratio_buttons(ws) ==
    [i \in 1..Len(image_ratios(ws)) |->
        [res |-> image_ratios(ws)[i],
         marker |-> dirty_marker(ws, image_ratios(ws)[i])]]

(***************************************************************************)
(* Initial states of browsing: up to three files in any order; a.png and   *)
(* b.png have metadata, c.png may have none.  The first file has metadata  *)
(* (from_args loads it).                                                   *)
(***************************************************************************)
BrowseStems == {"a", "b", "c"}

BrowseInfo(stem) ==
    LET blank == IF stem = "a" THEN WallInfo(<<stem, "png">>, 1600, 1200, <<>>, <<>>)
                 ELSE IF stem = "b"
                 THEN WallInfo(<<stem, "png">>, 1200, 1600,
                               <<Face(600, 500, 200, 200)>>, <<>>)
                 ELSE WallInfo(<<stem, "png">>, 1600, 1200,
                               <<Face(600, 500, 200, 200)>>, <<>>)
    IN  [blank EXCEPT !.geometries =
            [r \in {BrowseResolutions[i] : i \in 1..Len(BrowseResolutions)} |->
                IF stem = "b"
                THEN clamp(0, blank, fit(r, blank.width, blank.height))
                ELSE crop(blank, r)]]

\* The geometries the editor's buttons can hand to set_geometry.
BrowseCrops(info, r) ==
    {crop(info, r)} \cup
    { clamp(o, info, fit(r, info.width, info.height)) : o \in {0, 100} }

BrowseInit ==
    /\ pc = "browse"
    /\ phase = 0
    /\ format = NoFormat
    /\ min_dim = <<0, 0>>
    /\ dims = [s \in Stems |-> <<0, 0>>]
    /\ files = {}
    /\ csv = EmptyStore
    /\ images = <<>>
    /\ acc = <<>>
    /\ added = {}
    /\ calls = <<>>
    /\ det = NoDet
    /\ last = NoLast
    /\ ret = NoRet
    /\ retro = NoRetro
    /\ \E known \in { {"a", "b"}, {"a", "b", "c"} } :
        disk = save([f \in { <<s, "png">> : s \in known } |-> BrowseInfo(f[1])],
                    {BrowseResolutions[i] : i \in 1..Len(BrowseResolutions)})
    /\ \E stems \in (SUBSET BrowseStems) \ {{}} :
        \E order \in Orders(stems) :
            /\ <<order[1], "png">> \in DOMAIN disk
            /\ wallpapers =
                [NoWallpapers EXCEPT
                    !.files = [i \in 1..Len(order) |-> Path(WallDir, order[i], "png")],
                    !.index = 0,
                    !.source = load(disk)[<<order[1], "png">>],
                    !.current = load(disk)[<<order[1], "png">>],
                    !.ratio = BrowseResolutions[1]]

\* The effect of a browsing operation that yielded `out`.
Browsed(op, out) ==
    /\ wallpapers' = out.ws
    /\ pc' = IF out.panic THEN "panic" ELSE pc
    /\ ret' = [NoRet EXCEPT !.op = op]
    /\ UNCHANGED <<phase, format, min_dim, dims, files, disk, csv, images, acc,
                   added, calls, det, last, retro>>

PrevWall ==
    /\ pc = "browse"
    /\ wallpapers.files # <<>>
    /\ Browsed("prev_wall", prev_wall(wallpapers, disk))

NextWall ==
    /\ pc = "browse"
    /\ wallpapers.files # <<>>
    /\ Browsed("next_wall", next_wall(wallpapers, disk))

Remove ==
    /\ pc = "browse"
    /\ wallpapers.files # <<>>
    /\ Browsed("remove", remove(wallpapers, disk))

SetFromFilename ==
    /\ pc = "browse"
    /\ wallpapers.files # <<>>
    /\ \E stem \in BrowseStems :
        Browsed("set_from_filename",
                set_from_filename(wallpapers, <<stem, "png">>, disk))

\* A resolution button is clicked: wallpapers.ratio = res
SelectRatio ==
    /\ pc = "browse"
    /\ wallpapers.files # <<>>
    /\ \E i \in 1..Len(image_ratios(wallpapers)) :
        Browsed("select_ratio",
                Outcome(FALSE, [wallpapers EXCEPT
                                    !.ratio = image_ratios(wallpapers)[i]]))

\* set_geometry with a geometry of the selected ratio
SetCurrentGeometry ==
    /\ pc = "browse"
    /\ wallpapers.files # <<>>
    /\ \E g \in BrowseCrops(wallpapers.current, wallpapers.ratio) :
        Browsed("set_geometry", Outcome(FALSE, set_geometry(wallpapers, g)))

\* RatioSelector is rendered.
RatioSelector ==
    /\ pc = "browse"
    /\ wallpapers.files # <<>>
    /\ ret' = [NoRet EXCEPT !.op = "ratio_selector",
                            !.list = ratio_buttons(wallpapers)]
    /\ UNCHANGED <<pipeline, retro, wallpapers>>

BrowseNext ==
    \/ PrevWall
    \/ NextWall
    \/ Remove
    \/ SetFromFilename
    \/ SelectRatio
    \/ SetCurrentGeometry
    \/ RatioSelector

SpecBrowse == BrowseInit /\ [][BrowseNext]_vars


(***************************************************************************)
(* Properties.                                                             *)
(***************************************************************************)
\* The k-th Detect entry of a queue, counted over Detect entries only.
DetectIndices(queue) == { i \in 1..Len(queue) : queue[i].tag = "Detect" }

KthDetect(queue, k) == SelectSeq(queue, LAMBDA e : e.tag = "Detect")[k].path

\* The queue detect_faces was called on.
DetectQueue == IF pc = "detecting" THEN images ELSE last.before

InDetectLoop == pc = "detecting" \/ last.op = "detect_end"

\* C1: when the detector emits a number of lines different from the number of
\* submitted Detect paths, detect_faces does not save the store and return:
\* a normal end of detect_faces implies one line per path.
C1_MismatchIsFatal ==
    last.op = "detect_end" =>
        last.emitted = Cardinality(DetectIndices(last.before))

\* C2: the faces of the k-th detector line are stored under the file name of
\* the k-th Detect path of the queue (Preview entries do not count); when two
\* paths of the batch share a file name the entry holds the later line.
C2_LinesFollowQueueOrder ==
    InDetectLoop =>
        /\ Len(det.lines) <= Cardinality(DetectIndices(DetectQueue))
        /\ \A k \in 1..Len(det.lines) :
            LET name == filename(KthDetect(DetectQueue, k))
                same == { j \in 1..Len(det.lines) :
                            filename(KthDetect(DetectQueue, j)) = name }
                latest == CHOOSE j \in same : \A i \in same : i <= j
            IN  /\ name \in DOMAIN csv
                /\ csv[name].filename = name
                /\ csv[name].faces = det.lines[latest]

\* Two lines with different faces were read and stored under different names,
\* and a Preview entry stands in the queue before the second Detect entry.
C2_Witness ==
    /\ pc = "detecting"
    /\ Len(det.lines) >= 2
    /\ det.lines[1] # det.lines[2]
    /\ filename(KthDetect(images, 1)) # filename(KthDetect(images, 2))
    /\ \E i, j \in 1..Len(images) :
        /\ i < j
        /\ images[i].tag = "Preview"
        /\ images[j].tag = "Detect"
        /\ images[j].path = KthDetect(images, 2)

\* C3: a step changes the persisted store only to one that holds the new
\* entry of every image of the batch.
C3_AllOrNothing ==
    [][ disk' # disk =>
            /\ Len(det.lines) = Cardinality(DetectIndices(images))
            /\ \A k \in 1..Cardinality(DetectIndices(images)) :
                 filename(KthDetect(images, k)) \in DOMAIN disk' ]_vars

(***************************************************************************)
(* Properties of add_image, read off the state after the call: the store   *)
(* and the filesystem are the ones the call saw.                           *)
(***************************************************************************)
AfterAddImage == last.op = "add_image" /\ last.readable

LastOut == out_path_of(last.img, format)

LastWidth == dims[last.img.stem][1]

LastHeight == dims[last.img.stem][2]

HasInfo == filename(LastOut) \in DOMAIN csv

LastInfo == csv[filename(LastOut)]

QueuedNothing == pc = "idle" /\ images = last.before

Queued(e) == pc = "idle" /\ images = Append(last.before, e)

\* C4: an image whose output exists, with metadata of unchanged ratio, exactly
\* one face and non-default crops, is skipped by add_image.
C4_FullyProcessedSkipped ==
    ( /\ AfterAddImage
      /\ LastOut \in files
      /\ HasInfo
      /\ LastInfo.width * LastHeight = LastInfo.height * LastWidth
      /\ Len(LastInfo.faces) = 1
      /\ ~is_default_crops(LastInfo, Resolutions) )
    => QueuedNothing

\* The output path an entry stands for.
EntryOut(e) == IF e.tag = "Upscale" THEN out_path_of(e.path, format) ELSE e.path

\* C5: after new() and any add_image calls on distinct sources, no output
\* path is in more than one queue entry.
C5_OneStagePerImage ==
    (pc = "idle" /\ phase = 0) =>
        \A i, j \in 1..Len(images) :
            i # j => EntryOut(images[i]) # EntryOut(images[j])

\* C6 as stated: an image without metadata is queued as Detect, whether or not
\* its output file exists.
C6_NoMetadataQueuesDetect ==
    (AfterAddImage /\ ~HasInfo) => Queued(Detect(LastOut))

\* C6, amended: an image without metadata is queued as Detect when its output
\* file exists; when it does not, it is queued as Upscale of the source (or
\* the call panics for want of a scale factor).
C6_NoMetadataByOutput ==
    (AfterAddImage /\ ~HasInfo) =>
        IF LastOut \in files
        THEN Queued(Detect(LastOut))
        ELSE \/ pc = "panic" /\ images = last.before
             \/ \E f \in 1..4 : Queued(Upscale(last.img, f))

C6_Witness ==
    /\ AfterAddImage
    /\ ~HasInfo
    /\ LastOut \notin files
    /\ \E f \in 1..4 : Queued(Upscale(last.img, f))

(***************************************************************************)
(* Properties of the scale factor.  d * f >= m is decided without forming  *)
(* the product.                                                            *)
(***************************************************************************)
Reaches(d, f, m) == d >= (m \div f) + (IF m % f = 0 THEN 0 ELSE 1)

Satisfies(f) ==
    Reaches(LastWidth, f, min_dim[1]) /\ Reaches(LastHeight, f, min_dim[2])

\* add_image reached a call of get_scale_factor: the image is neither queued
\* as Detect (output without metadata) nor as Preview.
CallsScaleFactor ==
    /\ AfterAddImage
    /\ ~(LastOut \in files /\ ~HasInfo)
    /\ ~( /\ LastOut \in files
          /\ HasInfo
          /\ LastInfo.width \div LastWidth = LastInfo.height \div LastHeight
          /\ Len(LastInfo.faces) # 1
          /\ is_default_crops(LastInfo, Resolutions) )

\* C7: whenever some f in 1..4 reaches both minimums, get_scale_factor returns
\* the smallest such f.
C7_SmallestFactor ==
    (CallsScaleFactor /\ \E f \in 1..4 : Satisfies(f)) =>
        \E f \in 1..4 :
            /\ Satisfies(f)
            /\ \A g \in 1..(f - 1) : ~Satisfies(g)
            /\ Queued(Upscale(last.img, f))

\* C8: when no f in 1..4 reaches both minimums the call panics and queues
\* nothing; a factor that is returned is in 1..4 and reaches both minimums.
C8_TooSmallIsFatal ==
    CallsScaleFactor =>
        /\ (~\E f \in 1..4 : Satisfies(f)) =>
                (pc = "panic" /\ images = last.before)
        /\ pc # "panic" =>
                \E f \in 1..4 : Satisfies(f) /\ Queued(Upscale(last.img, f))

\* The 500x500 image against a minimum of 2100x2000.
C8_Witness ==
    /\ CallsScaleFactor
    /\ LastWidth = 500 /\ LastHeight = 500
    /\ min_dim = <<2100, 2000>>
    /\ pc = "panic"
    /\ images = last.before


(***************************************************************************)
(* Properties of the upscale and optimize transitions, read off the state  *)
(* after the step on one entry.                                            *)
(***************************************************************************)
\* An Upscale entry was mapped by upscale (the upscaler, if any, was spawned).
AfterUpscale ==
    last.op = "upscale" /\ last.entry.tag = "Upscale" /\ pc = "upscaling"

Mapped == acc[Len(acc)]

UpscalerCall(src, f, dst) == Call("realcugan-ncnn-vulkan", src, dst, f, <<>>)

\* C9 as stated: Upscale(src, 1) becomes Optimize(src) with no upscaler run;
\* Upscale(src, f), f > 1, becomes Optimize(dst) after exactly one upscaler
\* run on (src, f, dst), dst being a path under /tmp different from src.
C9_UpscaleToDifferentTemp ==
    AfterUpscale =>
        LET src == last.entry.path
            f == last.entry.factor
        IN  IF f = 1
            THEN Mapped = Optimize(src) /\ Len(calls) = last.ncalls
            ELSE /\ Mapped.tag = "Optimize"
                 /\ Mapped.path.dir = TmpDir
                 /\ Mapped.path # src
                 /\ Len(calls) = last.ncalls + 1
                 /\ calls[Len(calls)] = UpscalerCall(src, f, Mapped.path)

\* C9, amended: dst is the file name of src under /tmp, with the configured
\* format as extension when one is set; it differs from src unless src is
\* that very path.
C9_UpscaleToTemp ==
    AfterUpscale =>
        LET src == last.entry.path
            f == last.entry.factor
            dst == Path(TmpDir, src.stem,
                        IF format = NoFormat THEN src.ext ELSE format)
        IN  IF f = 1
            THEN Mapped = Optimize(src) /\ Len(calls) = last.ncalls
            ELSE /\ Mapped = Optimize(dst)
                 /\ (dst = src) <=>
                        (src.dir = TmpDir /\ format \in {NoFormat, src.ext})
                 /\ Len(calls) = last.ncalls + 1
                 /\ calls[Len(calls)] = UpscalerCall(src, f, dst)

\* An upscaler run on a source outside /tmp, and one on a source under /tmp
\* that is written in place.
C9_Witness ==
    /\ AfterUpscale
    /\ last.entry.factor > 1
    /\ Mapped.path = last.entry.path
    /\ \E i \in 1..Len(calls) :
        calls[i].tool = "realcugan-ncnn-vulkan" /\ calls[i].input # calls[i].output

\* An Optimize entry was taken by optimize (its input exists).
AfterOptimize == last.op = "optimize" /\ last.entry.tag = "Optimize"

\* C10: optimize on Optimize(path) runs exactly one optimizer, the one of the
\* output extension, before it yields Detect(out); an output path with any
\* other extension, or with none, is fatal and no Detect(out) is produced.
C10_OptimizerOrFatal ==
    AfterOptimize =>
        LET out == with_directory(with_format(last.entry.path, format), WallDir)
            tool == IF out.ext \in {"jpg", "jpeg"} THEN "jpegoptim"
                    ELSE IF out.ext = "png" THEN "oxipng" ELSE "cwebp"
        IN  IF out.ext \in {"jpg", "jpeg", "png", "webp"}
            THEN pc # "panic" =>
                    /\ pc = "optimizing"
                    /\ Mapped = Detect(out)
                    /\ Len(calls) = last.ncalls + 1
                    /\ calls[Len(calls)].tool = tool
                    /\ calls[Len(calls)].input = last.entry.path
            ELSE pc = "panic" /\ Len(calls) = last.ncalls


(***************************************************************************)
(* Properties of the waits and of the external processes.                  *)
(***************************************************************************)
\* optimize is about to take an Optimize entry.
NextOptimize ==
    /\ pc = "optimizing"
    /\ Len(acc) < Len(images)
    /\ images[Len(acc) + 1].tag = "Optimize"

Optimizers == {"jpegoptim", "oxipng", "cwebp"}

\* A step that spawned a process of one of the tools.
SpawnedOneOf(tools) ==
    /\ Len(calls') = Len(calls) + 1
    /\ calls'[Len(calls')].tool \in tools

\* C11: while the input path of the Optimize entry at hand is absent, optimize
\* neither runs an optimizer nor moves on; an optimizer is only ever spawned
\* on an input that exists.
C11_OptimizeWaitsForInput ==
    [][ /\ (NextOptimize /\ images[Len(acc) + 1].path \notin files) =>
                (pc' = pc /\ acc' = acc /\ calls' = calls)
        /\ SpawnedOneOf(Optimizers) =>
                calls'[Len(calls')].input \in files ]_vars

\* An optimizer ran on an input that was absent when optimize reached it and
\* appeared while it was polling.
C11_Witness ==
    /\ AfterOptimize
    /\ last.waited
    /\ Len(calls) = last.ncalls + 1
    /\ calls[Len(calls)].tool \in Optimizers
    /\ calls[Len(calls)].input = last.entry.path
    /\ last.entry.path \in files

DetectorCalls == { i \in 1..Len(calls) : calls[i].tool = "anime-face-detector" }

\* The Detect paths of a queue, in queue order.
QueuedDetectPaths(queue) ==
    [k \in 1..Cardinality(DetectIndices(queue)) |-> KthDetect(queue, k)]

\* C12: the detector is spawned at most once in a run and exactly once for a
\* batch that reached the read loop; it is spawned while detect_faces waits,
\* when every queued Detect path exists, with exactly the Detect paths of the
\* queue as arguments, in queue order.
C12_OneDetectorPerBatch ==
    /\ [](Cardinality(DetectorCalls) <= 1)
    /\ [](InDetectLoop =>
            \E i \in DetectorCalls : calls[i].args = QueuedDetectPaths(DetectQueue))
    /\ [][ SpawnedOneOf({"anime-face-detector"}) =>
            /\ pc = "wait_detect"
            /\ calls'[Len(calls')].args = QueuedDetectPaths(images)
            /\ \A k \in 1..Len(calls'[Len(calls')].args) :
                    calls'[Len(calls')].args[k] \in files ]_vars

\* The detector was spawned on two paths, one of which it had to wait for,
\* with a Preview entry in the queue.
C12_Witness ==
    /\ pc = "detecting"
    /\ last.op = "detect_spawn"
    /\ last.waited
    /\ Len(calls[Len(calls)].args) = 2
    /\ \E i \in 1..Len(images) : images[i].tag = "Preview"

\* The Preview entries the read loop owes for lines k.. of the detector.
RECURSIVE PreviewsOf(_, _, _)
PreviewsOf(queue, lines, k) ==
    IF k > Len(lines) THEN <<>>
    ELSE (IF Len(lines[k]) = 1 THEN <<>> ELSE <<Preview(KthDetect(queue, k))>>)
            \o PreviewsOf(queue, lines, k + 1)

\* C13: after the Preview entries that were already queued, the previews of
\* detect_faces are exactly one Preview per processed image whose line did not
\* hold exactly one face, in processing order; every processed image has a
\* metadata entry.
C13_PreviewUnlessOneFace ==
    InDetectLoop =>
        /\ Len(det.lines) <= Cardinality(DetectIndices(DetectQueue))
        /\ det.to_preview =
              SelectSeq(DetectQueue, LAMBDA e : e.tag = "Preview")
                \o PreviewsOf(DetectQueue, det.lines, 1)
        /\ \A k \in 1..Len(det.lines) :
              filename(KthDetect(DetectQueue, k)) \in DOMAIN csv

\* A line with one face, one with two and one with none have been processed.
C13_Witness ==
    /\ pc = "detecting"
    /\ \E i, j, k \in 1..Len(det.lines) :
        Len(det.lines[i]) = 1 /\ Len(det.lines[j]) = 0 /\ Len(det.lines[k]) = 2

\* The file names detect_faces has processed so far.
DetectedNames ==
    { filename(KthDetect(DetectQueue, k)) : k \in 1..Len(det.lines) }

\* C14: the entry of every processed image is stored under the image's file
\* name, carries that name, the dimensions of the image and the faces of one
\* of its lines, and maps exactly the configured resolutions, each to the
\* Cropper's default crop for these faces and dimensions; during the loop the
\* store holds the loaded entries of all other names and nothing else.
C14_DefaultCropPerResolution ==
    InDetectLoop =>
        /\ Len(det.lines) <= Cardinality(DetectIndices(DetectQueue))
        /\ \A k \in 1..Len(det.lines) :
            LET p == KthDetect(DetectQueue, k)
                name == filename(p)
            IN  /\ name \in DOMAIN csv
                /\ csv[name].filename = name
                /\ <<csv[name].width, csv[name].height>> = dims[p.stem]
                /\ \E j \in 1..Len(det.lines) :
                    /\ filename(KthDetect(DetectQueue, j)) = name
                    /\ csv[name].faces = det.lines[j]
                /\ DOMAIN csv[name].geometries = Resolutions
                /\ \A r \in Resolutions :
                    csv[name].geometries[r] =
                        DefaultCrop(csv[name].faces, csv[name].width,
                                    csv[name].height, r)
        /\ pc = "detecting" =>
            /\ DOMAIN csv = DOMAIN disk \cup DetectedNames
            /\ \A f \in DOMAIN csv \ DetectedNames : csv[f] = disk[f]

\* An image that had an entry was detected again, with faces, and its entry
\* was replaced.
C14_Witness ==
    /\ pc = "detecting"
    /\ \E name \in DetectedNames :
        /\ name \in DOMAIN disk
        /\ csv[name] # disk[name]
        /\ Len(csv[name].faces) = 2

\* C15: a step whose external tool could not be spawned, or ended with a
\* non-zero exit status, panics and does not advance the entry.
C15_ToolFailureIsFatal ==
    ( /\ last.op \in {"upscale", "optimize", "detect_spawn"}
      /\ last.outcome \in {"nospawn", "failed"} )
    => (pc = "panic" /\ (last.op # "detect_spawn" => acc = last.before))

\* C16: detect_faces has waited on the detector process when it has saved the
\* store and returned.
C16_DetectorAwaited ==
    last.op = "detect_end" => (disk = csv /\ det.child = "reaped")


(***************************************************************************)
(* Properties of the geometry transforms, read off the value a query       *)
(* returned (ret) for the geometry it was applied to (ret.arg).            *)
(***************************************************************************)
Aligns == {"align_start", "align_center", "align_end"}

ImgW == wallpapers.width

ImgH == wallpapers.height

\* x + w <= W and y + h <= H, without forming the sums
InBounds(g) == g.w <= ImgW /\ g.h <= ImgH /\ g.x <= ImgW - g.w /\ g.y <= ImgH - g.h

\* C17: whatever aligns and set_geometry calls came before, an align applied to
\* a geometry no larger than the image keeps w and h, underflows nowhere and
\* returns a geometry inside the image; the stored geometry is never larger
\* than the image.
C17_AlignStaysInBounds ==
    /\ wallpapers.geom.w <= ImgW
    /\ wallpapers.geom.h <= ImgH
    /\ ret.op \in Aligns =>
        /\ faultless(ret.geom)
        /\ ret.geom.w = ret.arg.w
        /\ ret.geom.h = ret.arg.h
        /\ ret.geom.x >= 0
        /\ ret.geom.y >= 0
        /\ InBounds(ret.geom)

\* align_end applied to the result of an align_center, on a crop that leaves an
\* odd number of columns free.
C17_Witness ==
    /\ pc = "editor"
    /\ ImgW = 1920 /\ ImgH = 1080
    /\ wallpapers.edits >= 1
    /\ ret.op = "align_end"
    /\ ret.arg = Geometry(607, 1080, 656, 0)
    /\ ret.geom = Geometry(607, 1080, 1313, 0)

\* C18: align_center returns x = (W - w) / 2, y = 0 when h = H and x = 0,
\* y = (H - h) / 2 otherwise; align_end returns x = W - w, y = 0 when h = H
\* and x = 0, y = H - h otherwise; the crop of ratio 1:1 for a 1920x1080 image
\* without faces is 1080x1080+420+0.
C18_CenterAndEndOffsets ==
    /\ ret.op = "align_center" =>
        ret.geom = IF ret.arg.h = ImgH
                   THEN Geometry(ret.arg.w, ret.arg.h, (ImgW - ret.arg.w) \div 2, 0)
                   ELSE Geometry(ret.arg.w, ret.arg.h, 0, (ImgH - ret.arg.h) \div 2)
    /\ ret.op = "align_end" =>
        ret.geom = IF ret.arg.h = ImgH
                   THEN Geometry(ret.arg.w, ret.arg.h, ImgW - ret.arg.w, 0)
                   ELSE Geometry(ret.arg.w, ret.arg.h, 0, ImgH - ret.arg.h)
    /\ (ret.op = "crop" /\ ret.ratio = <<1, 1>> /\ ImgW = 1920 /\ ImgH = 1080) =>
        ret.geom = Geometry(1080, 1080, 420, 0)

\* The 1:1 crop of the 1920x1080 image.
C18_Witness ==
    /\ ret.op = "crop"
    /\ ret.ratio = <<1, 1>>
    /\ ImgW = 1920 /\ ImgH = 1080
    /\ ret.geom = Geometry(1080, 1080, 420, 0)

C20_CandidatesAreUnique ==
    ret.op = "candidate_geometries" =>
        LET all == crop_candidates(wallpapers)
            first(v) == CHOOSE i \in 1..Len(all) :
                            all[i] = v /\ \A j \in 1..(i - 1) : all[j] # v
        IN  /\ \A i, j \in 1..Len(ret.list) : i # j => ret.list[i] # ret.list[j]
            /\ {ret.list[i] : i \in 1..Len(ret.list)}
                    = {all[i] : i \in 1..Len(all)}
            /\ \A i, j \in 1..Len(ret.list) :
                    i < j => first(ret.list[i]) < first(ret.list[j])
            /\ Len(all) > 0 => ret.list[1] = all[1]

\* Three candidates, the third equal to the first.
C20_Witness ==
    /\ ret.op = "candidate_geometries"
    /\ Len(crop_candidates(wallpapers)) = 3
    /\ crop_candidates(wallpapers)[1] # crop_candidates(wallpapers)[2]
    /\ crop_candidates(wallpapers)[3] = crop_candidates(wallpapers)[1]
    /\ Len(ret.list) = 2


(***************************************************************************)
(* Properties of the queue across add_image and the two batches.           *)
(***************************************************************************)
\* C29: add_image on an image with output file and metadata queues Upscale
\* whenever the recorded width:height ratio differs from the source image's,
\* and queues Preview only when the ratio is unchanged.
C29_RatioChangeQueuesUpscale ==
    ( /\ AfterAddImage
      /\ LastOut \in files
      /\ HasInfo
      /\ LastWidth <= 65535
      /\ LastHeight <= 65535
      /\ pc # "panic" )
    => LET differs == LastInfo.width * LastHeight # LastInfo.height * LastWidth
       IN  /\ differs => \E f \in 1..4 : Queued(Upscale(last.img, f))
           /\ Queued(Preview(LastOut)) => ~differs

\* The entry a batch may turn entry e into.
Advanced(stage, e, m) ==
    IF stage = "upscaling" /\ e.tag = "Upscale"
    THEN m.tag = "Optimize" /\ m.path.stem = e.path.stem
    ELSE IF stage = "optimizing" /\ e.tag = "Optimize"
    THEN m.tag = "Detect" /\ m.path.stem = e.path.stem
    ELSE m = e /\ e.tag \in {"Detect", "Preview"} \cup
                            (IF stage = "upscaling" THEN {"Optimize"} ELSE {})

\* C30: upscale_images and optimize_images keep the number and the order of
\* the queue entries and only advance stages (Upscale to Optimize, Optimize
\* to Detect; Detect and Preview pass unchanged); after optimize_images every
\* entry is Detect or Preview.
C30_BatchesAdvanceInOrder ==
    /\ [][ (pc \in {"upscaling", "optimizing"} /\ pc' = "idle") =>
                /\ Len(images') = Len(images)
                /\ \A i \in 1..Len(images) : Advanced(pc, images[i], images'[i])
         ]_vars
    /\ [](last.op = "optimize_done" =>
                \A i \in 1..Len(images) : images[i].tag \in {"Detect", "Preview"})

\* Both batches are through a queue holding a Preview entry and an entry that
\* was upscaled.
C30_Witness ==
    /\ last.op = "optimize_done"
    /\ Len(images) >= 2
    /\ \E i \in 1..Len(images) : images[i].tag = "Preview"
    /\ \E i \in 1..Len(images) : images[i].tag = "Detect"
    /\ \E i \in 1..Len(calls) : calls[i].tool = "realcugan-ncnn-vulkan"

(***************************************************************************)
(* Properties of the retrofit, read off the state after a run that ran to  *)
(* its end: the store and the config the run found are retro.before and    *)
(* retro.cfg_before.                                                       *)
(***************************************************************************)
RetroDone == retro.status = "ok"

NewRes == retro.arg.ratio

\* The metadata the run loaded, and the metadata now in the store.
Found == load(retro.before)

Stored == load(disk)

\* The images that had no crop for the new ratio.
Lacking == { f \in DOMAIN Found : NewRes \notin DOMAIN Found[f].geometries }

\* The configured ratio closest to the new one, before the run.
Closest == closest_resolution(retro.cfg_before, NewRes)

\* The image is one to re-center: a closest ratio exists, the default crops of
\* the two ratios have the same direction, and the recorded crop of the
\* closest ratio is not its default.
ToRecenter(f) ==
    /\ Closest # NoRatio
    /\ direction(Found[f], crop(Found[f], NewRes))
            = direction(Found[f], crop(Found[f], Closest))
    /\ Found[f].geometries[Closest] # crop(Found[f], Closest)

Pushed == { retro.to_process[i] : i \in 1..Len(retro.to_process) }

\* C21: a second run with the same ratio on the store the first run left
\* changes no store entry, adds no resolution to the config and reports no
\* file name.
C21_SecondRunIsNoOp ==
    (RetroDone /\ retro.prev_status = "ok" /\ retro.prev = retro.arg) =>
        /\ disk = retro.before
        /\ retro.cfg = retro.cfg_before
        /\ retro.printed = <<>>

\* The first run gave an image a crop for 1:2 that is not the default one.
C21_Witness ==
    /\ RetroDone /\ retro.prev_status = "ok" /\ retro.prev = retro.arg
    /\ NewRes = <<1, 2>>
    /\ \E f \in DOMAIN Stored :
            Stored[f].geometries[NewRes] # crop(Stored[f], NewRes)

\* C22: the re-centered crop starts, on the active axis, at
\* clamp(m - new_dim / 2), m = start + length / 2 being the midpoint of the
\* image's recorded crop for the closest ratio and new_dim the new crop's
\* width (direction X) or height (direction Y).
C22_RecenteredOnRecordedMidpoint ==
    RetroDone =>
        \A f \in Pushed :
            LET info == Found[f]
                new_crop == crop(info, NewRes)
                recorded == info.geometries[Closest]
                dir == direction(info, new_crop)
                m == IF dir = "X" THEN recorded.x + recorded.w \div 2
                     ELSE recorded.y + recorded.h \div 2
                new_dim == IF dir = "X" THEN new_crop.w ELSE new_crop.h
                image_dim == IF dir = "X" THEN info.width ELSE info.height
                start == clip(m - new_dim \div 2, image_dim - new_dim)
                stored == Stored[f].geometries[NewRes]
            IN  stored = IF dir = "X" THEN [new_crop EXCEPT !.x = start]
                         ELSE [new_crop EXCEPT !.y = start]

\* C23: an image lacking the new ratio gets a re-centered crop exactly when a
\* closest ratio exists, the default crops of the new and the closest ratio
\* have the same direction, and the image's recorded crop for the closest
\* ratio is not that ratio's default; otherwise it gets the default crop.
C23_RecentersWhenCustomised ==
    RetroDone =>
        \A f \in Lacking :
            /\ f \in Pushed <=> ToRecenter(f)
            /\ Stored[f].geometries[NewRes] =
                    IF ToRecenter(f)
                    THEN center_new_crop(crop(Found[f], Closest),
                                         crop(Found[f], NewRes), Found[f])
                    ELSE crop(Found[f], NewRes)

\* One image is re-centered, one has a customised crop of the other direction
\* and one has the default crop of the closest ratio.
C23_Witness ==
    /\ RetroDone
    /\ Closest # NoRatio
    /\ \E f \in Lacking : ToRecenter(f)
    /\ \E f \in Lacking :
            \/ Found[f].geometries[Closest] = crop(Found[f], Closest)
            \/ /\ Found[f].geometries[Closest] # crop(Found[f], Closest)
               /\ direction(Found[f], crop(Found[f], NewRes))
                    # direction(Found[f], crop(Found[f], Closest))

\* C24: the lines printed are the file names of the re-centered images, each
\* once, in ascending order.
C24_PrintsRecenteredSorted ==
    RetroDone =>
        /\ { retro.printed[i] : i \in 1..Len(retro.printed) }
                = { f \in Lacking : ToRecenter(f) }
        /\ \A i, j \in 1..Len(retro.printed) :
                i < j => fname_rank(retro.printed[i]) < fname_rank(retro.printed[j])

\* Two images were re-centered, the later name was met first.
C24_Witness ==
    /\ RetroDone
    /\ Len(retro.printed) = 2
    /\ retro.to_process # retro.printed

\* C25: a run changes nothing but the new ratio's crop of the images that
\* lacked it: no entry is added or removed, every other field and every other
\* ratio's crop is kept, and afterwards every image has a crop for the new
\* ratio.
C25_OnlyNewRatioChanges ==
    RetroDone =>
        /\ DOMAIN disk = DOMAIN retro.before
        /\ \A f \in DOMAIN disk :
            LET row == disk[f]
                old == retro.before[f]
            IN  /\ [row EXCEPT !.geometries = <<>>] = [old EXCEPT !.geometries = <<>>]
                /\ DOMAIN row.geometries = DOMAIN old.geometries \cup {NewRes}
                /\ \A r \in DOMAIN old.geometries :
                        row.geometries[r] = old.geometries[r]

\* Two images with crops for two ratios got one for a third.
C25_Witness ==
    /\ RetroDone
    /\ Cardinality(DOMAIN disk) = 2
    /\ Cardinality(retro.cfg_before) = 2
    /\ NewRes \notin retro.cfg_before
    /\ retro.printed # <<>>

\* C26: a run with an invalid ratio argument ends with exit status 1, the
\* config and the store untouched.
C26_InvalidRatioExitsOne ==
    (retro.runs > 0 /\ ~retro.arg.version /\ ~retro.arg.valid) =>
        /\ retro.status = "exit1"
        /\ retro.cfg = retro.cfg_before
        /\ disk = retro.before

(***************************************************************************)
(* Properties of browsing and of the modified markers.                     *)
(***************************************************************************)
Browsing == pc = "browse" /\ wallpapers.files # <<>>

\* C27: a resolution is marked modified exactly when the current crop of the
\* resolution differs from the source's; set_geometry changes the current
\* copy for the selected ratio only, never the source; after prev_wall,
\* next_wall or set_from_filename current equals source.
C27_ModifiedIffDiffersFromSource ==
    /\ [](ret.op = "ratio_selector" =>
            \A i \in 1..Len(ret.list) :
                ret.list[i].marker = " *" <=>
                    wallpapers.current.geometries[ret.list[i].res]
                        # wallpapers.source.geometries[ret.list[i].res])
    /\ []((pc = "browse" /\ ret.op \in {"prev_wall", "next_wall",
                                        "set_from_filename"}) =>
            wallpapers.current = wallpapers.source)
    /\ [][ ret'.op = "set_geometry" =>
            /\ wallpapers'.source = wallpapers.source
            /\ [wallpapers' EXCEPT !.current = wallpapers.current] = wallpapers
            /\ [wallpapers'.current EXCEPT !.geometries = <<>>]
                    = [wallpapers.current EXCEPT !.geometries = <<>>]
            /\ \A r \in DOMAIN wallpapers.current.geometries :
                    r # wallpapers.ratio =>
                        wallpapers'.current.geometries[r]
                            = wallpapers.current.geometries[r] ]_vars

\* The buttons show a modified resolution that is not the selected one, next
\* to the selected one whose crop is the source's, itself not the default.
C27_Witness ==
    /\ ret.op = "ratio_selector"
    /\ \E i, j \in 1..Len(ret.list) :
        /\ ret.list[i].marker = " *"
        /\ ret.list[i].res # wallpapers.ratio
        /\ ret.list[j].marker = ""
        /\ ret.list[j].res = wallpapers.ratio
        /\ wallpapers.source.geometries[wallpapers.ratio]
                # crop(wallpapers.source, wallpapers.ratio)

\* C28: whenever at least one file remains, index < files.len() and the
\* loaded metadata is that of files[index].
C28_IndexNamesLoadedFile ==
    Browsing =>
        /\ wallpapers.index < Len(wallpapers.files)
        /\ wallpapers.current.filename
                = filename(wallpapers.files[wallpapers.index + 1])
        /\ wallpapers.source.filename
                = filename(wallpapers.files[wallpapers.index + 1])

(***************************************************************************)
(* Properties of a whole run: aborts, the final queue, termination.        *)
(***************************************************************************)
\* The entries of a queue that are still in an earlier stage than Detect.
Unprocessed(queue) ==
    { i \in 1..Len(queue) : queue[i].tag \in {"Upscale", "Optimize"} }

\* C31: optimize on an Upscale entry ends the run with exit status 1, and so
\* does detect_faces on a queue that holds an Upscale or Optimize entry;
\* detect_faces then ends it before anything else: the queue is as it was, no
\* detector was spawned, nothing was inserted into the store or saved, and
\* nothing follows.  Exit status 1 has no other origin in a run.
C31_EarlierStageExitsOne ==
    /\ (last.op = "optimize" /\ last.entry.tag = "Upscale") => pc = "exit1"
    /\ last.op = "detect_faces" =>
            (pc = "exit1" <=> Unprocessed(last.before) # {})
    /\ pc = "exit1" =>
        \/ last.op = "optimize" /\ last.entry.tag = "Upscale"
        \/ /\ last.op = "detect_faces"
           /\ images = last.before
           /\ DetectorCalls = {}
           /\ csv = disk
           /\ det.child = "none"

\* detect_faces met an Optimize entry standing after a Preview entry, in a
\* run in which upscale_images had spawned the upscaler.
C31_Witness ==
    /\ pc = "exit1"
    /\ last.op = "detect_faces"
    /\ calls # <<>>
    /\ \E i, j \in 1..Len(images) :
        i < j /\ images[i].tag = "Preview" /\ images[j].tag = "Optimize"

\* The processes of the external editor spawned so far.
EditorCalls == { i \in 1..Len(calls) : calls[i].tool = "wallpaper-ui" }

\* The paths of the Preview entries of a queue, in queue order.
PreviewPaths(queue) ==
    LET ps == SelectSeq(queue, LAMBDA e : e.tag = "Preview")
    IN  [i \in 1..Len(ps) |-> ps[i].path]

\* C32: when detect_faces has returned the queue holds Preview entries only:
\* the Preview entries of the queue it was called on, in their order, then one
\* Preview (of the path in the wallpaper directory) per image whose line was
\* read with a number of faces other than one, in the order of the lines.
\* preview spawns the editor once, on exactly the Preview paths of the queue in
\* order, and does not spawn it when there is none; the editor is spawned
\* nowhere else.
C32_QueueEndsAsPreviews ==
    /\ last.op = "detect_end" =>
        /\ \A i \in 1..Len(images) : images[i].tag = "Preview"
        /\ \E old, new \in 0..Len(images) :
            /\ old + new = Len(images)
            /\ SubSeq(images, 1, old)
                    = SelectSeq(last.before, LAMBDA e : e.tag = "Preview")
            /\ SubSeq(images, old + 1, Len(images))
                    = PreviewsOf(last.before, det.lines, 1)
            /\ \A i \in old + 1..Len(images) :
                    images[i].path = with_directory(images[i].path, WallDir)
    /\ last.op # "preview" => EditorCalls = {}
    /\ last.op = "preview" =>
        /\ pc = "done"
        /\ images = last.before
        /\ IF PreviewPaths(images) = <<>>
           THEN EditorCalls = {}
           ELSE /\ EditorCalls = {Len(calls)}
                /\ calls[Len(calls)].args = PreviewPaths(images)

\* detect_faces returned a Preview that was already queued followed by the
\* Preview of an image detected with no face or two, and preview handed both
\* to the editor.
C32_Witness ==
    /\ pc = "done"
    /\ last.op = "preview"
    /\ Len(det.lines) = 1
    /\ Len(det.lines[1]) # 1
    /\ Len(images) = 2
    /\ images = det.to_preview
    /\ EditorCalls # {}
    /\ Len(calls[Len(calls)].args) = 2

\* The run has ended: preview returned, or the process panicked or exited.
Terminated == pc \in {"done", "panic", "exit1"}

\* The store has been saved by detect_faces, after the detector closed its
\* output, and holds what the run inserted.
Saved == det.child = "eof" /\ disk = csv

\* The run is not over and cannot take a step by itself.
Waiting == ~Terminated /\ ~ENABLED RunStep

\* C33: a run whose tools end, whose awaited files eventually exist and whose
\* detector writes one line per path and closes its output eventually ends;
\* it ends with preview only after all four stages and the save of the store,
\* and otherwise by a panic.  The run can only wait in a poll for a file
\* (optimize, detect_faces); the read of the next detector line is a step of
\* the read loop.  While a file it polls for is absent nothing of the run
\* advances: there is no timeout.
C33_RunEnds ==
    /\ <>Terminated
    /\ [](pc = "done" => (phase = 4 /\ Saved))
    /\ [](pc # "exit1")
    /\ [](Waiting => (awaited # {} /\ pc \in {"optimizing", "wait_detect"}))
    /\ [][ awaited # {} =>
            /\ awaited' \subseteq awaited
            /\ UNCHANGED <<pc, phase, images, acc, calls, det, csv, disk>> ]_vars

\* The run ended with preview after it had upscaled, optimized and detected
\* two images and saved the store.
C33_Witness ==
    /\ pc = "done"
    /\ Saved
    /\ Len(det.lines) = 2
    /\ \E i, j \in 1..Len(calls) :
        /\ calls[i].tool = "realcugan-ncnn-vulkan"
        /\ calls[j].tool \in Optimizers
    /\ DetectorCalls # {}

\* C33 as stated: under the same provisos every run that has started on its
\* stages reaches the save of the store and ends with preview; runs that end
\* because a tool could not be spawned or because a line of the detector (or
\* the image it names) could not be read are set aside as runs in which a
\* tool did not do its part.
C33_RunReachesSave ==
    (phase >= 1) ~>
        \/ pc = "done" /\ Saved
        \/ pc = "panic" /\ last.outcome = "nospawn"
        \/ pc = "panic" /\ last.op = "detect_line"

====
